---- MODULE Spec2Model ----
(***************************************************************************)
(* Resource-path reconciliation of apigateway-resource-creator.            *)
(*                                                                         *)
(* Two variants of the reconciler are modelled against one remote          *)
(* resource tree:                                                          *)
(*   - the CLI variant, APIGatewayManager.ensure_resources_exist           *)
(*     (src/apiGatewayCreator.py), which prompts the operator, and         *)
(*   - the Lambda variant, create_resource_hierarchy                       *)
(*     (src/lambda-apigateway-creator/api_gateway_operations.py), which    *)
(*     creates without asking.                                             *)
(* Strings are sequences of one-character strings, ids are positive        *)
(* naturals handed out by the remote system, Python's None is 0.           *)
(***************************************************************************)
EXTENDS Integers, Sequences, FiniteSets, TLC

\* ------------------------------------------------------------------ bounds
MaxPathLen == 3
MaxRuns == 1
MaxFailures == 1
MaxParseLen == 5
MaxMethods == 2

\* --------------------------------------------------------------- alphabet
Chars == {"/", "a"}
Answers == {"s", "S", "n"}
None == 0

Paths == UNION {[1..n -> Chars] : n \in 0..MaxPathLen}

\* the characters of the paths handed to the parsers on their own: a word
\* character, the braces of a placeholder, a character that is not a word
\* character, and the separator
ParseChars == {"/", "a", "{", "}", "-"}
WordChars == {"a"}
ParsePaths == UNION {[1..n -> ParseChars] : n \in 0..MaxParseLen}

VARIABLES
  resources,          \* remote tree: set of [id, path, parentId]
  methods,            \* remote methods: set of <<resource id, http method, part>>
  nextId,             \* next id the remote system assigns
  failures,           \* number of remote calls that failed so far
  runs,               \* number of finished runs
  pc,                 \* position of the current run
  variant,            \* "cli" | "lambda" | "none"
  uri_path,           \* argument of the run
  path_parts,         \* parse_uri_path(uri_path)            (CLI)
  segments,           \* PathParser(uri_path).get_segments() (Lambda)
  current_path,       \* create_resource_hierarchy's current_path
  i,                  \* index of the segment being processed
  parent_id, final_resource_id, existing_id, confirm, new_id,
  created_count, skipped_count,
  ret,                \* return value of ensure_resources_exist
  lret,               \* return value of create_resource_hierarchy
  wf,                 \* what the caller made of the result
  hist,               \* calls, prompts and log lines of the current run, in order
  resources0,         \* the remote tree when the current run started
  prev,               \* summary of the previous finished run
  input_path,         \* the string handed to a parser or a path rule
  result,             \* what the function applied to input_path produced
  config,             \* base_config / payload of the endpoint workflow
  method_index,       \* index of the HTTP method being configured
  success_count,      \* create_endpoint_workflow's success_count
  results,            \* what the configurator returned for each method so far
  response,           \* what the workflow handed back to its caller
  clients,            \* LambdaClient runs on one host: position, payload, reply
  lambda_response_file, \* content of /tmp/lambda_response.json
  invocations,        \* what the Lambda handler did with each event, in order
  racers              \* reconcile runs interleaved on one API: their locals

vars == <<resources, methods, nextId, failures, runs, pc, variant, uri_path,
          path_parts, segments, current_path, i, parent_id, final_resource_id,
          existing_id, confirm, new_id, created_count, skipped_count, ret,
          lret, wf, hist, resources0, prev, input_path, result, config,
          method_index, success_count, results, response, clients,
          lambda_response_file, invocations, racers>>

remoteVars == <<resources, methods, nextId>>
cliLocals == <<path_parts, final_resource_id, confirm, ret>>
lambdaLocals == <<segments, current_path, created_count, skipped_count, lret>>
parserVars == <<input_path, result>>
configVars == <<config, method_index, success_count, results, response>>
clientVars == <<clients, lambda_response_file, invocations>>
raceVars == <<racers>>

\* ---------------------------------------------------------- string helpers
RECURSIVE LStrip(_)
LStrip(s) == IF s # <<>> /\ Head(s) = "/" THEN LStrip(Tail(s)) ELSE s

RECURSIVE RStrip(_)
RStrip(s) ==
  IF s # <<>> /\ s[Len(s)] = "/" THEN RStrip(SubSeq(s, 1, Len(s) - 1)) ELSE s

\* str.strip("/")
Strip(s) == RStrip(LStrip(s))

\* str.split("/"): every "/" separates, empty pieces are kept
RECURSIVE Split(_)
Split(s) ==
  IF \A k \in 1..Len(s) : s[k] # "/"
  THEN <<s>>
  ELSE LET k == CHOOSE j \in 1..Len(s) :
                   s[j] = "/" /\ \A m \in 1..(j - 1) : s[m] # "/"
       IN <<SubSeq(s, 1, k - 1)>> \o Split(SubSeq(s, k + 1, Len(s)))

\* str.lower() on the answers the operator can type
Lower(a) == IF a = "S" THEN "s" ELSE IF a = "N" THEN "n" ELSE a

\* current_path after the first k segments: "/" + seg for each of them
RECURSIVE CumulativePath(_, _)
CumulativePath(segs, k) ==
  IF k = 0 THEN <<>>
  ELSE CumulativePath(segs, k - 1) \o <<"/">> \o segs[k]

\* number of word characters (\w) of s from position k on
RECURSIVE WordRun(_, _)
WordRun(s, k) ==
  IF k <= Len(s) /\ s[k] \in WordChars THEN 1 + WordRun(s, k + 1) ELSE 0

\* the regular expression \{(\w+)\} matches at the head of s: "{", one or
\* more word characters, "}"
MatchesAtHead(s) ==
  /\ Len(s) >= 3
  /\ s[1] = "{"
  /\ WordRun(s, 2) >= 1
  /\ 2 + WordRun(s, 2) <= Len(s)
  /\ s[2 + WordRun(s, 2)] = "}"

\* re.findall(r'\{(\w+)\}', s): the captured names of the non-overlapping
\* matches, left to right
RECURSIVE FindAll(_)
FindAll(s) ==
  IF s = <<>> THEN <<>>
  ELSE IF MatchesAtHead(s)
       THEN <<SubSeq(s, 2, 1 + WordRun(s, 2))>>
            \o FindAll(SubSeq(s, 3 + WordRun(s, 2), Len(s)))
       ELSE FindAll(Tail(s))

\* "c" in s
Contains(s, c) == \E k \in 1..Len(s) : s[k] = c

\* the test parse_uri_path makes on a segment before it reads the name
LooksLikeParam(seg) == Contains(seg, "{") /\ Contains(seg, "}")

\* one element of the list parse_uri_path returns; param_name is the first
\* match, absent (empty here) for a plain segment
Part(segs, k) ==
  [path |-> CumulativePath(segs, k),
   segment |-> segs[k],
   is_param |-> LooksLikeParam(segs[k]),
   param_name |-> IF LooksLikeParam(segs[k]) /\ FindAll(segs[k]) # <<>>
                  THEN FindAll(segs[k])[1] ELSE <<>>]

\* parse_uri_path without its guard for an empty clean_path: "".split("/")
\* is one empty segment
parse_uri_path_unguarded(p) ==
  LET segs == Split(Strip(p))
  IN [k \in 1..Len(segs) |-> Part(segs, k)]

\* APIGatewayManager.parse_uri_path, when it returns
parse_uri_path(p) ==
  LET clean_path == Strip(p)
      segs == IF clean_path # <<>> THEN Split(clean_path) ELSE <<>>
  IN [k \in 1..Len(segs) |-> Part(segs, k)]

\* APIGatewayManager.parse_uri_path does not return: re.findall(...)[0] on a
\* segment that holds both braces and no match is an IndexError
parse_uri_path_raises(p) ==
  LET clean_path == Strip(p)
      segs == IF clean_path # <<>> THEN Split(clean_path) ELSE <<>>
  IN \E k \in 1..Len(segs) : LooksLikeParam(segs[k]) /\ FindAll(segs[k]) = <<>>

\* PathParser._parse_segments
parse_segments(p) ==
  LET clean_path == Strip(p)
  IN IF clean_path = <<>> THEN <<>> ELSE Split(clean_path)

\* ------------------------------------------------------- the remote system
RootNode == [id |-> 1, path |-> <<"/">>, parentId |-> None]

\* remote trees a run can start from: the root every REST API has, alone or
\* with resources made earlier
InitialTrees ==
  LET A == [id |-> 2, path |-> <<"/", "a">>, parentId |-> 1]
      AA == [id |-> 3, path |-> <<"/", "a", "/", "a">>, parentId |-> 2]
  IN {{RootNode}, {RootNode, A}, {RootNode, A, AA}}

\* the node a listing holds for a path, None if there is none
Lookup(res, path) ==
  IF \E r \in res : r.path = path
  THEN (CHOOSE r \in res : r.path = path).id
  ELSE None

\* path the remote system gives a child of a node
ChildPath(parentPath, part) ==
  IF parentPath = <<"/">> THEN <<"/">> \o part ELSE parentPath \o <<"/">> \o part

\* create-resource as the remote system answers it: "ok", "conflict"
\* (a sibling of that name exists) or "rejected" (unknown parent, bad name)
RemoteCreateOutcome(res, parent, part) ==
  IF ~ \E r \in res : r.id = parent THEN "rejected"
  ELSE IF part = <<>> \/ \E k \in 1..Len(part) : part[k] = "/" THEN "rejected"
  ELSE LET pp == (CHOOSE r \in res : r.id = parent).path
       IN IF \E r \in res : r.path = ChildPath(pp, part) THEN "conflict" ELSE "ok"

NewNode(res, id, parent, part) ==
  [id |-> id,
   path |-> ChildPath((CHOOSE r \in res : r.id = parent).path, part),
   parentId |-> parent]

\* ------------------------------------------------------------- the history
\* one entry per remote call, prompt or log line: the operation, the HTTP
\* method it concerns (if any), the index of the path segment being processed
\* (0 while the root is resolved), the id passed, the id obtained, the outcome
Ev(op, http, seg, arg, r, out) ==
  [op |-> op, http |-> http, seg |-> seg, arg |-> arg, ret |-> r, out |-> out,
   authorization |-> "", authorizer |-> None]

\* the entry of a put-method call: its --authorization-type and its
\* --authorizer-id (None when the option is not passed)
PutMethodEv(http, seg, rid, out, authorization_type, authorizer_id) ==
  [Ev("put-method", http, seg, rid, None, out) EXCEPT
     !.authorization = authorization_type, !.authorizer = authorizer_id]

\* APIGatewayManager.run_command: what "success" is for an outcome
run_command_success(out, ignore_conflict) ==
  out = "ok" \/ (ignore_conflict /\ out = "conflict")

\* put-method / put-integration / put-method-response / put-integration-response
\* as the remote system answers them
RemotePutOutcome(ms, rid, http, part, env) ==
  LET needs == CASE part = "method" -> {}
                 [] part = "integration" -> {"method"}
                 [] part = "methodResponse" -> {"method"}
                 [] OTHER -> {"integration"}
  IN IF env # "ok" THEN env
     ELSE IF \E q \in needs : <<rid, http, q>> \notin ms THEN "rejected"
     ELSE IF <<rid, http, part>> \in ms /\ part \in {"method", "methodResponse"}
          THEN "conflict"
     ELSE "ok"

RemotePut(ms, rid, http, part, env) ==
  IF RemotePutOutcome(ms, rid, http, part, env) = "ok"
  THEN ms \cup {<<rid, http, part>>} ELSE ms

NumFailed(e) == Cardinality({k \in DOMAIN e : e[k] # "ok"})

\* APIGatewayManager.create_options_method(resource_id, cors_type): the four
\* calls it issues under the transport outcomes e[1..4], the remote methods
\* afterwards, and its return value
create_options_method(ms, rid, seg, e) ==
  LET o1 == RemotePutOutcome(ms, rid, "OPTIONS", "method", e[1])
      m1 == RemotePut(ms, rid, "OPTIONS", "method", e[1])
      o2 == RemotePutOutcome(m1, rid, "OPTIONS", "integration", e[2])
      m2 == RemotePut(m1, rid, "OPTIONS", "integration", e[2])
      o3 == RemotePutOutcome(m2, rid, "OPTIONS", "methodResponse", e[3])
      m3 == RemotePut(m2, rid, "OPTIONS", "methodResponse", e[3])
      o4 == RemotePutOutcome(m3, rid, "OPTIONS", "integrationResponse", e[4])
      m4 == RemotePut(m3, rid, "OPTIONS", "integrationResponse", e[4])
      ev1 == PutMethodEv("OPTIONS", seg, rid, o1, "NONE", None)
      ev2 == Ev("put-integration", "OPTIONS", seg, rid, None, o2)
      ev3 == Ev("put-method-response", "OPTIONS", seg, rid, None, o3)
      ev4 == Ev("put-integration-response", "OPTIONS", seg, rid, None, o4)
  IN IF ~ run_command_success(o2, FALSE)
     THEN [methods |-> m2, events |-> <<ev1, ev2>>, result |-> FALSE,
           issued |-> 2]
     ELSE [methods |-> m4, events |-> <<ev1, ev2, ev3, ev4>>,
           result |-> run_command_success(o4, TRUE), issued |-> 4]

\* transport outcomes of the calls of one create_options_method: the calls
\* that are not issued have no outcome of their own
OptionsEnvs ==
  {e \in [1..4 -> {"ok", "fail"}] :
     /\ failures + NumFailed(e) <= MaxFailures
     /\ (e[1] = "fail" \/ e[2] = "fail") => (e[3] = "ok" /\ e[4] = "ok")}

\* transport outcomes of one call
CliEnvs == {"ok"} \cup (IF failures < MaxFailures THEN {"fail"} ELSE {})
LambdaEnvs ==
  {"ok"} \cup (IF failures < MaxFailures THEN {"ClientError", "OtherError"} ELSE {})

Failed(env) == IF env = "ok" THEN 0 ELSE 1

NoPrev == [variant |-> "none", uri_path |-> <<>>, ret |-> None,
           present |-> FALSE, outcome |-> "none"]

NoLret == [success |-> FALSE, resource_id |-> None,
           error |-> [msg |-> "", segment |-> <<>>], created |-> 0, skipped |-> 0]

\* nothing has been applied to input_path yet
NoResult == [fn |-> "", raised |-> FALSE, parts |-> <<>>, segs |-> <<>>,
             paths |-> <<>>, declared |-> <<>>, mapped |-> <<>>,
             auth_headers |-> <<>>, custom_headers |-> <<>>]

\* no endpoint workflow has been started
NoConfig == [FULL_BACKEND_PATH |-> <<>>, HTTP_METHODS |-> <<>>, AUTH_TYPE |-> "",
             authorizer_id |-> None, cors_enabled |-> TRUE]

\* the workflow has handed nothing back
NoResponse == [done |-> FALSE, success |-> FALSE, code |-> "", count |-> 0]

\* the processes that run LambdaClient on one host, one API each
ClientIds == {1, 2}

\* json.loads('{}'): a payload with no key
EmptyPayload ==
  [keys |-> {}, operation |-> "", api_id |-> 0, config_keys |-> {},
   endpoint_keys |-> {}, integration_keys |-> {}, auth_keys |-> {},
   auth_method |-> "", http_methods |-> <<>>, full_backend_path |-> <<>>,
   api_gateway_path |-> <<>>]

\* invoke has returned nothing yet; none is TRUE when it returns None; to is
\* the client whose invocation the Lambda answered with this reply
NoReply == [none |-> FALSE, to |-> 0, success |-> FALSE, error_code |-> ""]

\* a LambdaClient that has not been asked anything
NoClient == [pc |-> "idle", payload |-> EmptyPayload, returned |-> NoReply]

\* /tmp/lambda_response.json before any invocation wrote it
NoFile == NoReply

\* the reconcile runs that race on one API
RacerIds == {1, 2}

\* a reconcile run that has not started
NoRacer == [pc |-> "idle", variant |-> "none", i |-> 0, parent_id |-> None,
            existing_id |-> None, current_path |-> <<>>, ret |-> None,
            log |-> <<>>]

\* every cumulative prefix of the path is a node of the tree
AllPresent(res, p) ==
  \A k \in 1..Len(parse_uri_path(p)) : Lookup(res, parse_uri_path(p)[k].path) # None

\* --------------------------------------------------------------------- Init
\* the locals of a run, the history and the workflow's own state before
\* anything ran
AtRest ==
  /\ failures = 0
  /\ runs = 0
  /\ variant = "none"
  /\ uri_path = <<>>
  /\ path_parts = <<>>
  /\ segments = <<>>
  /\ current_path = <<>>
  /\ i = 0
  /\ parent_id = None
  /\ final_resource_id = None
  /\ existing_id = None
  /\ confirm = ""
  /\ new_id = None
  /\ created_count = 0
  /\ skipped_count = 0
  /\ ret = None
  /\ lret = NoLret
  /\ wf = "none"
  /\ hist = <<>>
  /\ resources0 = resources
  /\ prev = NoPrev
  /\ method_index = 0
  /\ success_count = 0
  /\ results = <<>>
  /\ response = NoResponse
  /\ clients = [c \in ClientIds |-> NoClient]
  /\ lambda_response_file = NoFile
  /\ invocations = <<>>
  /\ racers = [r \in RacerIds |-> NoRacer]

Init ==
  /\ resources \in InitialTrees
  /\ nextId = Cardinality(resources) + 1
  /\ methods = {}
  /\ pc = "idle"
  /\ AtRest
  /\ input_path = <<>>
  /\ result = NoResult
  /\ config = NoConfig

\* ------------------------------------------------------------ CLI variant
\* create_endpoint_workflow calls manager.ensure_resources_exist(path), which
\* parses the path
cli_begin ==
  /\ pc = "idle"
  /\ runs < MaxRuns
  /\ \E p \in Paths :
       /\ uri_path' = p
       /\ path_parts' = parse_uri_path(p)
  /\ variant' = "cli"
  /\ pc' = "root"
  /\ i' = 0
  /\ parent_id' = None
  /\ final_resource_id' = None
  /\ existing_id' = None
  /\ confirm' = ""
  /\ new_id' = None
  /\ ret' = None
  /\ wf' = "none"
  /\ hist' = <<>>
  /\ resources0' = resources
  /\ UNCHANGED <<parserVars, configVars, clientVars, raceVars>>
  /\ UNCHANGED <<remoteVars, failures, runs, lambdaLocals, prev>>

\* get_root_resource_id, called from either place of ensure_resources_exist
get_root_resource_id ==
  /\ pc = "root"
  /\ variant = "cli"
  /\ \E env \in CliEnvs :
       LET rid == IF env = "ok" THEN Lookup(resources, <<"/">>) ELSE None
       IN /\ failures' = failures + Failed(env)
          /\ hist' = Append(hist, Ev("get-resources", "", 0, None, rid, env))
          /\ IF path_parts = <<>>
             THEN /\ ret' = rid
                  /\ pc' = "returned"
                  /\ UNCHANGED <<parent_id, final_resource_id, i>>
             ELSE /\ parent_id' = rid
                  /\ final_resource_id' = rid
                  /\ i' = 1
                  /\ pc' = "find"
                  /\ ret' = ret
  /\ UNCHANGED <<parserVars, configVars, clientVars, raceVars>>
  /\ UNCHANGED <<remoteVars, runs, variant, uri_path, path_parts, existing_id,
                 confirm, new_id, lambdaLocals, wf, resources0, prev>>

\* the end of one iteration of the loop of ensure_resources_exist
CliAdvance(fid) ==
  IF i = Len(path_parts)
  THEN ret' = fid /\ pc' = "returned" /\ i' = i
  ELSE ret' = ret /\ pc' = "find" /\ i' = i + 1

\* find_resource_by_path with the prompt skipped: a missing segment goes
\* straight to its creation
find_resource_by_path_unprompted ==
  /\ pc = "find"
  /\ variant = "cli"
  /\ \E env \in CliEnvs :
       LET rid == IF env = "ok" THEN Lookup(resources, path_parts[i].path) ELSE None
       IN /\ failures' = failures + Failed(env)
          /\ hist' = Append(hist, Ev("get-resources", "", i, None, rid, env))
          /\ existing_id' = rid
          /\ IF rid # None
             THEN /\ final_resource_id' = rid
                  /\ parent_id' = rid
                  /\ CliAdvance(rid)
             ELSE /\ pc' = "create"
                  /\ UNCHANGED <<final_resource_id, parent_id, ret, i>>
  /\ UNCHANGED <<parserVars, configVars, clientVars, raceVars>>
  /\ UNCHANGED <<remoteVars, runs, variant, uri_path, path_parts, confirm,
                 new_id, lambdaLocals, wf, resources0, prev>>

\* find_resource_by_path(part["path"]) and the branch on its result
find_resource_by_path ==
  /\ pc = "find"
  /\ variant = "cli"
  /\ \E env \in CliEnvs :
       LET rid == IF env = "ok" THEN Lookup(resources, path_parts[i].path) ELSE None
       IN /\ failures' = failures + Failed(env)
          /\ hist' = Append(hist, Ev("get-resources", "", i, None, rid, env))
          /\ existing_id' = rid
          /\ IF rid # None
             THEN /\ final_resource_id' = rid
                  /\ parent_id' = rid
                  /\ CliAdvance(rid)
             ELSE /\ pc' = "confirm"
                  /\ UNCHANGED <<final_resource_id, parent_id, ret, i>>
  /\ UNCHANGED <<parserVars, configVars, clientVars, raceVars>>
  /\ UNCHANGED <<remoteVars, runs, variant, uri_path, path_parts, confirm,
                 new_id, lambdaLocals, wf, resources0, prev>>

\* the prompt without the return of the declined branch: the warning is
\* logged and the creation goes on
confirm_prompt_no_return ==
  /\ pc = "confirm"
  /\ variant = "cli"
  /\ \E a \in Answers :
       /\ confirm' = Lower(a)
       /\ hist' = IF Lower(a) # "s"
                  THEN hist \o <<Ev("input", "", i, None, None, a),
                                 Ev("logger.warning", "", i, None, None, "cancelled")>>
                  ELSE Append(hist, Ev("input", "", i, None, None, a))
       /\ ret' = ret
       /\ pc' = "create"
  /\ UNCHANGED <<parserVars, configVars, clientVars, raceVars>>
  /\ UNCHANGED <<remoteVars, failures, runs, variant, uri_path, path_parts, i,
                 parent_id, final_resource_id, existing_id, new_id,
                 lambdaLocals, wf, resources0, prev>>

\* the prompt of ensure_resources_exist and the branch on the answer
confirm_prompt ==
  /\ pc = "confirm"
  /\ variant = "cli"
  /\ \E a \in Answers :
       /\ confirm' = Lower(a)
       /\ IF Lower(a) # "s"
          THEN /\ hist' = hist \o <<Ev("input", "", i, None, None, a),
                                    Ev("logger.warning", "", i, None, None, "cancelled")>>
               /\ ret' = None
               /\ pc' = "returned"
          ELSE /\ hist' = Append(hist, Ev("input", "", i, None, None, a))
               /\ ret' = ret
               /\ pc' = "create"
  /\ UNCHANGED <<parserVars, configVars, clientVars, raceVars>>
  /\ UNCHANGED <<remoteVars, failures, runs, variant, uri_path, path_parts, i,
                 parent_id, final_resource_id, existing_id, new_id,
                 lambdaLocals, wf, resources0, prev>>

\* create_resource(parent_id, part["segment"]) and the branch on its result
create_resource ==
  /\ pc = "create"
  /\ variant = "cli"
  /\ \E env \in CliEnvs :
       LET seg == path_parts[i].segment
           out == IF env = "ok" THEN RemoteCreateOutcome(resources, parent_id, seg)
                  ELSE env
       IN /\ failures' = failures + Failed(env)
          /\ IF run_command_success(out, FALSE)
             THEN /\ resources' = resources \cup {NewNode(resources, nextId, parent_id, seg)}
                  /\ nextId' = nextId + 1
                  /\ new_id' = nextId
                  /\ hist' = Append(hist, Ev("create-resource", "", i, parent_id, nextId, out))
                  /\ pc' = "options"
                  /\ ret' = ret
             ELSE /\ UNCHANGED <<resources, nextId>>
                  /\ new_id' = None
                  /\ hist' = hist \o <<Ev("create-resource", "", i, parent_id, None, out),
                                        Ev("logger.error", "", i, None, None, "create")>>
                  /\ pc' = "returned"
                  /\ ret' = None
  /\ UNCHANGED <<parserVars, configVars, clientVars, raceVars>>
  /\ UNCHANGED <<methods, runs, variant, uri_path, path_parts, i, parent_id,
                 final_resource_id, existing_id, confirm, lambdaLocals, wf,
                 resources0, prev>>

\* create_options_method(new_id, "DEFAULT") on the new node, its result
\* dropped, and the end of the iteration
attach_default_options ==
  /\ pc = "options"
  /\ variant = "cli"
  /\ \E e \in OptionsEnvs :
       LET o == create_options_method(methods, new_id, i, e)
       IN /\ methods' = o.methods
          /\ hist' = hist \o o.events
          /\ failures' = failures + NumFailed(e)
  /\ final_resource_id' = new_id
  /\ parent_id' = new_id
  /\ CliAdvance(new_id)
  /\ UNCHANGED <<parserVars, configVars, clientVars, raceVars>>
  /\ UNCHANGED <<resources, nextId, runs, variant, uri_path, path_parts,
                 existing_id, confirm, new_id, lambdaLocals, wf, resources0, prev>>

\* what a finished run leaves behind for the next one
Summary(v, r, how) ==
  [variant |-> v, uri_path |-> uri_path, ret |-> r,
   present |-> AllPresent(resources0, uri_path), outcome |-> how]

\* how the run ended, read off its history
Ending ==
  IF hist = <<>> THEN "none"
  ELSE LET last == hist[Len(hist)]
       IN IF last.op = "logger.warning" THEN "cancelled"
          ELSE IF last.op = "logger.error" THEN "create failed"
          ELSE IF last.op = "get-resources" /\ last.seg = 0 /\ last.ret = None
               THEN "root failed"
          ELSE "resolved"

\* create_endpoint_workflow on the return of ensure_resources_exist
create_endpoint_workflow ==
  /\ pc = "returned"
  /\ variant = "cli"
  /\ IF ret = None
     THEN /\ hist' = Append(hist, Ev("logger.error", "", 0, None, None, "workflow"))
          /\ wf' = "failed"
     ELSE /\ hist' = hist
          /\ wf' = "resolved"
  /\ prev' = Summary("cli", ret, Ending)
  /\ pc' = "idle"
  /\ runs' = runs + 1
  /\ UNCHANGED <<parserVars, configVars, clientVars, raceVars>>
  /\ UNCHANGED <<remoteVars, failures, variant, uri_path, path_parts, i,
                 parent_id, final_resource_id, existing_id, confirm, new_id,
                 ret, lambdaLocals, resources0>>

\* --------------------------------------------------------- Lambda variant
\* what create_resource_hierarchy returns
LambdaFailure(msg, seg) ==
  [success |-> FALSE, resource_id |-> None,
   error |-> [msg |-> msg, segment |-> seg], created |-> 0, skipped |-> 0]

LambdaSuccess(rid, created, skipped) ==
  [success |-> TRUE, resource_id |-> rid,
   error |-> [msg |-> "", segment |-> <<>>], created |-> created, skipped |-> skipped]

\* _create_endpoint steps 1 and 2: PathParser(path).get_segments(), then the
\* call of create_resource_hierarchy
lambda_begin ==
  /\ pc = "idle"
  /\ runs < MaxRuns
  /\ \E p \in Paths :
       /\ uri_path' = p
       /\ segments' = parse_segments(p)
  /\ variant' = "lambda"
  /\ pc' = "root"
  /\ i' = 0
  /\ parent_id' = None
  /\ existing_id' = None
  /\ new_id' = None
  /\ current_path' = <<>>
  /\ created_count' = 0
  /\ skipped_count' = 0
  /\ lret' = NoLret
  /\ wf' = "none"
  /\ hist' = <<>>
  /\ resources0' = resources
  /\ UNCHANGED <<parserVars, configVars, clientVars, raceVars>>
  /\ UNCHANGED <<remoteVars, failures, runs, cliLocals, prev>>

\* the end of one iteration of the loop of create_resource_hierarchy
LambdaAdvance(pid, created, skipped) ==
  IF i = Len(segments)
  THEN lret' = LambdaSuccess(pid, created, skipped) /\ pc' = "returned" /\ i' = i
  ELSE lret' = lret /\ pc' = "find" /\ i' = i + 1

\* _get_root_resource_id and the head of create_resource_hierarchy
lambda_get_root_resource_id ==
  /\ pc = "root"
  /\ variant = "lambda"
  /\ \E env \in LambdaEnvs :
       LET root_id == IF env = "ok" THEN Lookup(resources, <<"/">>) ELSE None
       IN /\ failures' = failures + Failed(env)
          /\ hist' = Append(hist, Ev("get-resources", "", 0, None, root_id, env))
          /\ IF env = "OtherError"
             THEN /\ lret' = LambdaFailure("str(e)", <<>>)
                  /\ pc' = "returned"
                  /\ UNCHANGED <<parent_id, i>>
             ELSE IF root_id = None
             THEN /\ lret' = LambdaFailure("Could not find root resource", <<>>)
                  /\ pc' = "returned"
                  /\ UNCHANGED <<parent_id, i>>
             ELSE IF segments = <<>>
             THEN /\ lret' = LambdaSuccess(root_id, 0, 0)
                  /\ pc' = "returned"
                  /\ parent_id' = root_id
                  /\ i' = i
             ELSE /\ lret' = lret
                  /\ pc' = "find"
                  /\ parent_id' = root_id
                  /\ i' = 1
  /\ UNCHANGED <<parserVars, configVars, clientVars, raceVars>>
  /\ UNCHANGED <<remoteVars, runs, variant, uri_path, segments, current_path,
                 existing_id, new_id, created_count, skipped_count, cliLocals,
                 wf, resources0, prev>>

\* _find_resource_by_path(api_id, current_path) and the branch on its result
lambda_find_resource_by_path ==
  /\ pc = "find"
  /\ variant = "lambda"
  /\ current_path' = current_path \o <<"/">> \o segments[i]
  /\ \E env \in LambdaEnvs :
       LET rid == IF env = "ok" THEN Lookup(resources, current_path') ELSE None
       IN /\ failures' = failures + Failed(env)
          /\ hist' = Append(hist, Ev("get-resources", "", i, None, rid, env))
          /\ IF env = "OtherError"
             THEN /\ lret' = LambdaFailure("str(e)", <<>>)
                  /\ pc' = "returned"
                  /\ UNCHANGED <<existing_id, parent_id, skipped_count, i>>
             ELSE IF rid # None
             THEN /\ existing_id' = rid
                  /\ parent_id' = rid
                  /\ skipped_count' = skipped_count + 1
                  /\ LambdaAdvance(rid, created_count, skipped_count + 1)
             ELSE /\ existing_id' = rid
                  /\ pc' = "create"
                  /\ UNCHANGED <<parent_id, skipped_count, lret, i>>
  /\ UNCHANGED <<parserVars, configVars, clientVars, raceVars>>
  /\ UNCHANGED <<remoteVars, runs, variant, uri_path, segments, new_id,
                 created_count, cliLocals, wf, resources0, prev>>

\* _create_resource(api_id, parent_id, segment) and the branch on its result
lambda_create_resource ==
  /\ pc = "create"
  /\ variant = "lambda"
  /\ \E env \in LambdaEnvs :
       LET seg == segments[i]
           out == IF env = "ok" THEN RemoteCreateOutcome(resources, parent_id, seg)
                  ELSE env
       IN /\ failures' = failures + Failed(env)
          /\ IF out = "ok"
             THEN /\ resources' = resources \cup {NewNode(resources, nextId, parent_id, seg)}
                  /\ nextId' = nextId + 1
                  /\ new_id' = nextId
                  /\ parent_id' = nextId
                  /\ created_count' = created_count + 1
                  /\ hist' = Append(hist, Ev("create-resource", "", i, parent_id, nextId, out))
                  /\ LambdaAdvance(nextId, created_count + 1, skipped_count)
             ELSE /\ UNCHANGED <<resources, nextId, parent_id, created_count, i>>
                  /\ new_id' = None
                  /\ hist' = Append(hist, Ev("create-resource", "", i, parent_id, None, out))
                  /\ pc' = "returned"
                  /\ lret' = IF out = "OtherError"
                             THEN LambdaFailure("str(e)", <<>>)
                             ELSE LambdaFailure("Failed to create resource: ", seg)
  /\ UNCHANGED <<parserVars, configVars, clientVars, raceVars>>
  /\ UNCHANGED <<methods, runs, variant, uri_path, segments, current_path,
                 existing_id, skipped_count, cliLocals, wf, resources0, prev>>

\* _create_endpoint on the return of create_resource_hierarchy
lambda_create_endpoint ==
  /\ pc = "returned"
  /\ variant = "lambda"
  /\ wf' = IF lret.success THEN "resolved" ELSE "failed"
  /\ prev' = Summary("lambda", lret.resource_id,
                     IF lret.success THEN "resolved" ELSE lret.error.msg)
  /\ pc' = "idle"
  /\ runs' = runs + 1
  /\ UNCHANGED <<parserVars, configVars, clientVars, raceVars>>
  /\ UNCHANGED <<remoteVars, failures, variant, uri_path, i, parent_id,
                 existing_id, new_id, hist, cliLocals, lambdaLocals, resources0>>

Next ==
  \/ cli_begin
  \/ get_root_resource_id
  \/ find_resource_by_path
  \/ confirm_prompt
  \/ create_resource
  \/ attach_default_options
  \/ create_endpoint_workflow
  \/ lambda_begin
  \/ lambda_get_root_resource_id
  \/ lambda_find_resource_by_path
  \/ lambda_create_resource
  \/ lambda_create_endpoint

Spec == Init /\ [][Next]_vars

\* ------------------------------------------------------------- vocabulary
\* indices of the history entries of one operation
Idx(op) == {k \in 1..Len(hist) : hist[k].op = op}
Checks == {k \in Idx("get-resources") : hist[k].seg > 0}
Prompts == Idx("input")
Creates == Idx("create-resource")
Made == {k \in Creates : hist[k].out = "ok"}
OptionsCalls == {k \in 1..Len(hist) : hist[k].http = "OPTIONS"}
Running == variant # "none"
Returned == pc \in {"returned", "idle"} /\ Running
RetId == IF variant = "cli" THEN ret ELSE lret.resource_id
Succeeded == Returned /\ (IF variant = "cli" THEN ret # None ELSE lret.success)
OptionsParts == {"method", "integration", "methodResponse", "integrationResponse"}
HasOptions(rid) == \A q \in OptionsParts : <<rid, "OPTIONS", q>> \in methods
\* the path has no segment: it is empty or made of slashes only
OnlySlashes(p) == \A k \in 1..Len(p) : p[k] = "/"
\* the cumulative path of the k-th segment of the run's path
PrefixOf(k) == CumulativePath(Split(Strip(uri_path)), k)
\* the node of the leaf of the run's path in a tree
LeafOf(res) ==
  IF OnlySlashes(uri_path) THEN Lookup(res, <<"/">>)
  ELSE Lookup(res, PrefixOf(Len(Split(Strip(uri_path)))))

\* ------------------------------------------------------------------ claims

\* C1 (as stated): when the remote tree holds a node for every cumulative
\* prefix of P at the start of a run, the run issues no create-resource call
\* and no prompt, a run that returns an id returns the id of the node whose
\* path is P, and so does the run before it when it was given the same P.
C1_Idempotent ==
  (Running /\ AllPresent(resources0, uri_path)) =>
     /\ Creates = {}
     /\ Prompts = {}
     /\ (Succeeded => RetId = LeafOf(resources0))
     /\ (Succeeded /\ pc = "returned" /\ prev.uri_path = uri_path
           /\ prev.present /\ prev.outcome = "resolved")
          => prev.ret = RetId

\* C2 (as stated): an answer other than "s" to a prompt ends the run with the
\* cancel result, no create-resource call follows it, and the nodes created
\* before it are still on the remote tree.
C2_CancelOriginal ==
  \A j \in Prompts :
    hist[j].out # "s" =>
      /\ \A m \in Creates : m < j
      /\ Returned /\ variant = "cli" /\ ret = None
      /\ \A m \in Made : \E r \in resources : r.id = hist[m].ret

\* C2 (amended): the same for an answer whose lower-case form is not "s".
C2_Cancel ==
  \A j \in Prompts :
    Lower(hist[j].out) # "s" =>
      /\ \A m \in Creates : m < j
      /\ Returned /\ variant = "cli" /\ ret = None
      /\ \A m \in Made : \E r \in resources : r.id = hist[m].ret

\* the operator declined the second missing segment after the first was made
C2_Witness ==
  /\ pc = "returned" /\ variant = "cli" /\ ret = None
  /\ \E j \in Prompts : hist[j].seg = 2 /\ hist[j].out = "n"
  /\ \E m \in Made : hist[m].seg = 1 /\ \E r \in resources : r.id = hist[m].ret

\* the order C3 asks for, with Yes(a) telling which answers confirm
GatedBy(Yes(_)) ==
  variant = "cli" =>
    \* a create comes right after the one prompt of its segment, answered yes
    /\ \A j \in Creates :
         /\ j > 1 /\ (j - 1) \in Prompts
         /\ hist[j - 1].seg = hist[j].seg
         /\ Yes(hist[j - 1].out)
         /\ Cardinality({q \in Prompts : hist[q].seg = hist[j].seg}) = 1
    \* a prompt comes right after the check that found its segment missing
    /\ \A q \in Prompts :
         /\ q > 1 /\ (q - 1) \in Checks
         /\ hist[q - 1].seg = hist[q].seg
         /\ hist[q - 1].ret = None
    \* root to leaf, one at a time
    /\ \A q1, q2 \in Prompts : q1 < q2 => hist[q1].seg < hist[q2].seg
    \* a check that found the segment missing is followed by its prompt
    /\ \A c \in Checks :
         hist[c].ret = None =>
           IF c = Len(hist) THEN pc = "confirm"
           ELSE (c + 1) \in Prompts /\ hist[c + 1].seg = hist[c].seg
    \* no create is pending unless the last thing that happened is a yes
    /\ pc = "create" => (Len(hist) \in Prompts /\ Yes(hist[Len(hist)].out))

IsLowerS(a) == a = "s"
LowersToS(a) == Lower(a) = "s"

C4_ExistingUntouched ==
  Running =>
    \A c \in Checks :
      Lookup(resources0, PrefixOf(hist[c].seg)) # None =>
        /\ \A q \in Prompts \cup Creates : hist[q].seg # hist[c].seg
        /\ (pc = "confirm" => i # hist[c].seg)
        /\ (pc \in {"find", "create"} /\ i = hist[c].seg + 1)
             => parent_id = Lookup(resources0, PrefixOf(hist[c].seg))

\* C5 (as stated): a node the run created gets exactly one OPTIONS creation
\* sequence, right after its creation and before the next segment is looked
\* at, and a node that was found gets none.
C5_OnePreflightPerCreated ==
  Running =>
    /\ \A m \in Made :
         IF m = Len(hist) THEN pc = "options"
         ELSE /\ hist[m + 1].op = "put-method"
              /\ hist[m + 1].http = "OPTIONS"
              /\ hist[m + 1].arg = hist[m].ret
              /\ Cardinality({k \in OptionsCalls : hist[k].op = "put-method"
                                /\ hist[k].arg = hist[m].ret}) = 1
    /\ \A c \in Checks :
         hist[c].ret # None => \A k \in OptionsCalls : hist[k].arg # hist[c].ret

\* C6 (as stated): when ensure_resources_exist returns an id, every node the
\* run created has its OPTIONS method on the remote system, and the run is
\* never past a node it created while that node lacks it.
C6_CreatedHaveOptions ==
  (variant = "cli" /\ (Succeeded \/ pc = "find")) =>
     \A m \in Made : HasOptions(hist[m].ret)

\* C7 (as stated): a failed create-resource call for segment k ends the run
\* with a failure that names segment k; nothing more is checked, asked,
\* created or configured, and the nodes made before remain.
C7_CreateFailureAborts ==
  \A j \in Creates :
    hist[j].out # "ok" =>
      /\ Returned
      /\ ~ Succeeded
      /\ \A m \in 1..Len(hist) :
           m > j => hist[m].op = "logger.error"
      /\ IF variant = "cli"
         THEN Len(hist) > j /\ hist[j + 1].op = "logger.error"
              /\ hist[j + 1].seg = hist[j].seg
         ELSE lret.error.segment = segments[hist[j].seg]
      /\ \A m \in Made : \E r \in resources : r.id = hist[m].ret

\* C8 (as stated): when the root node is not resolved the run fails at once:
\* no prompt and no create-resource call is issued, whatever the path.
C8_RootUnresolved ==
  (Running /\ Len(hist) > 0 /\ hist[1].ret = None) =>
     /\ Prompts = {}
     /\ Creates = {}

\* what ensure_resources_exist returns when a create-resource call failed
CreateFailureReturn == None

\* C9 (as stated): the result of a run the operator cancelled differs from
\* the result of a run whose create-resource call failed, and the caller does
\* not handle a cancellation as an error.
C9_CancelDistinct ==
  (variant = "cli" /\ \E q \in Prompts : Lower(hist[q].out) # "s") =>
     /\ (pc = "returned" => ret # CreateFailureReturn)
     /\ (pc = "idle" => wf # "failed" /\ hist[Len(hist)].op # "logger.error")

\* C10: for a path without segments the run asks nothing, creates nothing,
\* configures no OPTIONS method, and returns the root's id (nothing when the
\* listing that should give the root failed).
C10_EmptyPath ==
  (Running /\ OnlySlashes(uri_path)) =>
     /\ Prompts = {}
     /\ Creates = {}
     /\ OptionsCalls = {}
     /\ pc \notin {"find", "confirm", "create", "options"}
     /\ Returned =>
          /\ Len(hist) >= 1
          /\ RetId = (IF hist[1].out = "ok" THEN RootNode.id ELSE None)
          /\ Succeeded <=> hist[1].out = "ok"

\* the path "/" was given and the root's id came back
C10_Witness ==
  /\ pc = "returned"
  /\ uri_path = <<"/">>
  /\ RetId = RootNode.id
  /\ Len(hist) = 1

\* ====================================================================
\* The parsers and the path rules on their own: a string is given, one of
\* the functions is applied to it.
\* ====================================================================

\* "/".join(parts)
RECURSIVE Join(_)
Join(parts) ==
  IF parts = <<>> THEN <<>>
  ELSE IF Len(parts) = 1 THEN parts[1]
  ELSE parts[1] \o <<"/">> \o Join(Tail(parts))

\* create_endpoint_workflow: api_resource_path from FULL_BACKEND_PATH
api_resource_path(FULL_BACKEND_PATH) ==
  LET parts == Split(Strip(FULL_BACKEND_PATH))
  IN IF Len(parts) > 1 THEN <<"/">> \o Join(Tail(parts)) ELSE FULL_BACKEND_PATH

\* EndpointConfig.api_gateway_path with the test on the number of parts left
\* out
api_gateway_path_untested(full_backend_path) ==
  LET parts == Split(Strip(full_backend_path))
  IN <<"/">> \o Join(Tail(parts))

\* EndpointConfig.api_gateway_path
api_gateway_path(full_backend_path) ==
  LET parts == Split(Strip(full_backend_path))
  IN IF Len(parts) > 1 THEN <<"/">> \o Join(Tail(parts)) ELSE full_backend_path

\* EndpointCreatorLambda._build_lambda_payload: endpoint.api_gateway_path
payload_api_gateway_path(full_backend_path) ==
  LET path_parts_ == Split(Strip(full_backend_path))
  IN IF Len(path_parts_) > 1 THEN <<"/">> \o Join(Tail(path_parts_))
     ELSE full_backend_path

\* a Python dict as a function; d1.update(d2)
Update(d1, d2) ==
  [k \in DOMAIN d1 \cup DOMAIN d2 |-> IF k \in DOMAIN d2 THEN d2[k] ELSE d1[k]]

EmptyDict == [k \in {} |-> <<>>]

\* keys of request parameters are <<prefix, name>>; a header the operator
\* typed has the prefix he typed, "" if none
MethodPath == "method.request.path"
IntegrationPath == "integration.request.path"
IntegrationHeader == "integration.request.header"

\* a dict of headers keeps its keys in insertion order: a sequence of
\* <<key, value>>, each key once
Keys(d) == {d[k][1] : k \in DOMAIN d}
Get(d, key) == d[CHOOSE k \in DOMAIN d : d[k][1] = key][2]

\* d[key] = value: a key the dict holds keeps its place
SetItem(d, key, value) ==
  IF key \in Keys(d)
  THEN [k \in DOMAIN d |-> IF d[k][1] = key THEN <<key, value>> ELSE d[k]]
  ELSE Append(d, <<key, value>>)

\* d1.update(d2)
RECURSIVE DictUpdate(_, _)
DictUpdate(d1, d2) ==
  IF d2 = <<>> THEN d1
  ELSE DictUpdate(SetItem(d1, Head(d2)[1], Head(d2)[2]), Tail(d2))

\* the dict as a function of its keys
AsDict(d) == [key \in Keys(d) |-> Get(d, key)]

\* the statically configured headers of an authorization type (value "v"),
\* their names written with or without the integration prefix, and the
\* headers the operator adds (value "w"); a dict names a header once
AuthHeaderDicts ==
  {<<>>,
   << <<<<"", <<"h">>>>, <<"v">>>> >>,
   << <<<<IntegrationHeader, <<"h">>>>, <<"v">>>> >>,
   << <<<<"", <<"h">>>>, <<"v">>>>, <<<<"", <<"g">>>>, <<"v">>>> >>}

CustomHeaderDicts ==
  {<<>>,
   << <<<<"", <<"h">>>>, <<"w">>>> >>,
   << <<<<IntegrationHeader, <<"h">>>>, <<"w">>>> >>,
   << <<<<"", <<"g">>>>, <<"w">>>>, <<<<"", <<"h">>>>, <<"w">>>> >>}

\* ToSet of a sequence
Range(seq) == {seq[k] : k \in DOMAIN seq}

\* APIGatewayManager.extract_path_parameters / _extract_path_parameters:
\* the request parameters put-method declares
extract_path_parameters(path) ==
  [k \in {<<MethodPath, n>> : n \in Range(FindAll(path))} |-> TRUE]

\* the configured headers applied after the operator's
merged_headers_static_last(auth_headers, custom_headers) ==
  IF custom_headers # <<>> THEN DictUpdate(custom_headers, auth_headers)
  ELSE auth_headers

\* create_http_method: auth_headers.update(custom_headers)
merged_headers(auth_headers, custom_headers) ==
  IF custom_headers # <<>> THEN DictUpdate(auth_headers, custom_headers)
  ELSE auth_headers

\* create_http_method: the loop that gives every header the integration
\* prefix unless its key starts with it
RECURSIVE prefixed_headers(_, _)
prefixed_headers(acc, integration_headers) ==
  IF integration_headers = <<>> THEN acc
  ELSE LET key == Head(integration_headers)[1]
           value == Head(integration_headers)[2]
       IN prefixed_headers(
            SetItem(acc,
                    IF key[1] # IntegrationHeader
                    THEN <<IntegrationHeader, key[2]>> ELSE key,
                    value),
            Tail(integration_headers))

\* the request parameters of put-integration with the path mappings read
\* from the backend path
integration_request_parameters_of_backend(auth_headers, custom_headers, resource_path, backend_path) ==
  LET path_parameters ==
        [k \in {<<IntegrationPath, n>> : n \in Range(FindAll(backend_path))} |->
           <<MethodPath, k[2]>>]
      integration_headers == merged_headers(auth_headers, custom_headers)
  IN Update(Update(EmptyDict, AsDict(prefixed_headers(<<>>, integration_headers))),
            path_parameters)

\* create_http_method: the request parameters of put-integration, headers
\* first, then the path mappings read from the resource path
integration_request_parameters(auth_headers, custom_headers, resource_path, backend_path) ==
  LET path_parameters ==
        [k \in {<<IntegrationPath, n>> : n \in Range(FindAll(resource_path))} |->
           <<MethodPath, k[2]>>]
      integration_headers == merged_headers(auth_headers, custom_headers)
  IN Update(Update(EmptyDict, AsDict(prefixed_headers(<<>>, integration_headers))),
            path_parameters)

\* the name of a header as the payload carries it: the whole key
PayloadName(key) == IF key[1] = "" THEN key[2] ELSE <<key[1]>> \o key[2]

\* _build_integration_request_parameters: params[prefix + name] = value for
\* every item of a dict of the payload, whatever the name starts with
RECURSIVE add_headers(_, _)
add_headers(params, headers) ==
  IF headers = <<>> THEN params
  ELSE add_headers(
         SetItem(params, <<IntegrationHeader, PayloadName(Head(headers)[1])>>,
                 Head(headers)[2]),
         Tail(headers))

\* _build_integration_request_parameters: auth_headers, then custom_headers,
\* then the path mappings read from api_gateway_path
build_integration_request_parameters(auth_headers, custom_headers, api_gateway_path_) ==
  LET path_parameters ==
        [k \in {<<IntegrationPath, n>> : n \in Range(FindAll(api_gateway_path_))} |->
           <<MethodPath, k[2]>>]
  IN Update(AsDict(add_headers(add_headers(<<>>, auth_headers), custom_headers)),
            path_parameters)

ParseInit ==
  /\ resources = {RootNode}
  /\ nextId = 2
  /\ methods = {}
  /\ pc = "given"
  /\ AtRest
  /\ input_path \in ParsePaths
  /\ result = NoResult
  /\ config = NoConfig

Applied(r) ==
  /\ pc = "given"
  /\ pc' = "applied"
  /\ result' = r
  /\ UNCHANGED <<remoteVars, failures, runs, variant, uri_path, cliLocals,
                 lambdaLocals, i, parent_id, existing_id, new_id, wf, hist,
                 resources0, prev, input_path, configVars,
                 clientVars, raceVars>>

\* APIGatewayManager.parse_uri_path(input_path)
apply_parse_uri_path ==
  Applied([NoResult EXCEPT
             !.fn = "parse_uri_path",
             !.raised = parse_uri_path_raises(input_path),
             !.parts = IF parse_uri_path_raises(input_path) THEN <<>>
                       ELSE parse_uri_path(input_path)])

\* PathParser(input_path).get_segments()
apply_parse_segments ==
  Applied([NoResult EXCEPT
             !.fn = "parse_segments",
             !.segs = parse_segments(input_path)])

\* the resource path of the backend path input_path, as the CLI workflow, the
\* endpoint model and the payload builder compute it
apply_resource_path ==
  Applied([NoResult EXCEPT
             !.fn = "resource_path",
             !.paths = <<api_resource_path(input_path),
                         api_gateway_path(input_path),
                         payload_api_gateway_path(input_path)>>])

\* create_http_method for the backend path input_path: the request parameters
\* of its put-method and of its put-integration
apply_create_http_method ==
  \E auth_headers \in AuthHeaderDicts, custom_headers \in CustomHeaderDicts :
    Applied([NoResult EXCEPT
               !.fn = "create_http_method",
               !.auth_headers = auth_headers,
               !.custom_headers = custom_headers,
               !.declared = extract_path_parameters(api_resource_path(input_path)),
               !.mapped = integration_request_parameters(
                            auth_headers, custom_headers,
                            api_resource_path(input_path), input_path)])

\* create_http_methods and configure_integrations for the payload built for
\* the backend path input_path
apply_lambda_request_parameters ==
  \E auth_headers \in AuthHeaderDicts, custom_headers \in CustomHeaderDicts :
    Applied([NoResult EXCEPT
               !.fn = "configure_integrations",
               !.auth_headers = auth_headers,
               !.custom_headers = custom_headers,
               !.declared = extract_path_parameters(payload_api_gateway_path(input_path)),
               !.mapped = build_integration_request_parameters(
                            auth_headers, custom_headers,
                            payload_api_gateway_path(input_path))])

ParseNext ==
  \/ apply_parse_uri_path
  \/ apply_parse_segments
  \/ apply_resource_path
  \/ apply_create_http_method
  \/ apply_lambda_request_parameters

ParseSpec == ParseInit /\ [][ParseNext]_vars

\* ====================================================================
\* The endpoint workflow: the reconciler, then the method configurator on
\* the leaf, the OPTIONS method and the verification.
\* ====================================================================
HttpMethods == {"GET", "POST"}
AuthTypes == {"NO_AUTH", "COGNITO_ADMIN"}
\* the authorizer id of the profile, when it has one
AuthorizerId == 9

\* HTTP_METHODS: the methods selected for the endpoint, none twice
MethodLists ==
  {ms \in UNION {[1..n -> HttpMethods] : n \in 1..MaxMethods} :
     \A j, k \in DOMAIN ms : ms[j] = ms[k] => j = k}

\* the backend paths of the workflow: resource paths "/a" and "/a/a"
BackendPaths ==
  {<<"/", "a", "/", "a">>, <<"/", "a", "/", "a", "/", "a">>}

\* the four parts of a configured method on a node
Configured(rid, http) == {<<rid, http, q>> : q \in OptionsParts}

\* remote methods a workflow can start from: none, or GET and OPTIONS as an
\* earlier workflow left them on the nodes made earlier
InitialMethods(res) ==
  {{}, UNION {Configured(r.id, "GET") \cup Configured(r.id, "OPTIONS") :
                r \in res \ {RootNode}}}

\* answers of the remote system to one call, beyond the ones it derives from
\* its state: success, an error, or "already exists" for an integration or
\* an integration response it holds (it may also overwrite them)
PutEnvs == {"ok", "fail", "conflict"}

\* the order of the calls that configure one method
PartsOrder == <<"method", "integration", "methodResponse", "integrationResponse">>

\* an answer "already exists" is given for something that exists
AlreadyExists(ms, rid, http, part, env) ==
  env = "conflict" =>
    /\ part \in {"integration", "integrationResponse"}
    /\ <<rid, http, part>> \in ms

\* APIGatewayManager.create_http_method(resource_id, http_method, ...): the
\* calls it issues under the answers e[1..4], the remote methods afterwards
\* and its return value
create_http_method(ms, rid, http, seg, auth_type, manager_authorizer_id, e) ==
  LET authorization_type == IF auth_type = "NO_AUTH" THEN "NONE"
                            ELSE "COGNITO_USER_POOLS"
      authorizer_id == IF auth_type = "NO_AUTH" THEN None
                       ELSE manager_authorizer_id
      o1 == RemotePutOutcome(ms, rid, http, "method", e[1])
      m1 == RemotePut(ms, rid, http, "method", e[1])
      o2 == RemotePutOutcome(m1, rid, http, "integration", e[2])
      m2 == RemotePut(m1, rid, http, "integration", e[2])
      o3 == RemotePutOutcome(m2, rid, http, "methodResponse", e[3])
      m3 == RemotePut(m2, rid, http, "methodResponse", e[3])
      o4 == RemotePutOutcome(m3, rid, http, "integrationResponse", e[4])
      m4 == RemotePut(m3, rid, http, "integrationResponse", e[4])
      ev1 == PutMethodEv(http, seg, rid, o1, authorization_type, authorizer_id)
      ev2 == Ev("put-integration", http, seg, rid, None, o2)
      ev3 == Ev("put-method-response", http, seg, rid, None, o3)
      ev4 == Ev("put-integration-response", http, seg, rid, None, o4)
  IN IF authorizer_id = None /\ authorization_type = "COGNITO_USER_POOLS"
     THEN [methods |-> ms, result |-> FALSE, issued |-> 0,
           events |-> <<Ev("logger.error", http, seg, rid, None, "authorizer")>>]
     ELSE IF ~ run_command_success(o1, TRUE)
     THEN [methods |-> m1, result |-> FALSE, issued |-> 1, events |-> <<ev1>>]
     ELSE IF ~ run_command_success(o2, FALSE)
     THEN [methods |-> m2, result |-> FALSE, issued |-> 2,
           events |-> <<ev1, ev2>>]
     ELSE [methods |-> m4, result |-> run_command_success(o4, TRUE),
           issued |-> 4, events |-> <<ev1, ev2, ev3, ev4>>]

\* the answers to the calls of a handler that issues at most n calls and
\* issued k of them: within the failure budget, the calls not issued have no
\* answer of their own
Answered(e, n, k) ==
  /\ failures + NumFailed(e) <= MaxFailures
  /\ \A j \in (k + 1)..n : e[j] = "ok"

\* APIGatewayManager.verify_methods_integration: one get-integration per
\* method, one for OPTIONS, all of them issued
verify_methods_integration(ms, rid, seg, http_methods, e) ==
  LET all_methods == Append(http_methods, "OPTIONS")
      ok(k) == e[k] = "ok" /\ <<rid, all_methods[k], "integration">> \in ms
  IN [events |-> [k \in 1..Len(all_methods) |->
                    Ev("get-integration", all_methods[k], seg, rid, None,
                       IF ok(k) THEN "ok"
                       ELSE IF e[k] = "ok" THEN "rejected" ELSE e[k])],
      result |-> \A k \in 1..Len(all_methods) : ok(k)]

WorkflowInit ==
  /\ resources \in InitialTrees
  /\ nextId = Cardinality(resources) + 1
  /\ methods \in InitialMethods(resources)
  /\ pc = "idle"
  /\ AtRest
  /\ input_path = <<>>
  /\ result = NoResult
  /\ config = NoConfig

\* the configurations an endpoint workflow can be given
Configs ==
  {[FULL_BACKEND_PATH |-> b, HTTP_METHODS |-> ml, AUTH_TYPE |-> at,
    authorizer_id |-> aid, cors_enabled |-> ce] :
     b \in BackendPaths, ml \in MethodLists, at \in AuthTypes,
     aid \in {None, AuthorizerId}, ce \in BOOLEAN}

\* the segment index the entries of the configurator carry: one past the
\* last segment of the path
After == IF variant = "cli" THEN Len(path_parts) + 1 ELSE Len(segments) + 1

\* what a workflow hands back
Response(success, code, count) ==
  [done |-> TRUE, success |-> success, code |-> code, count |-> count]

\* ------------------------------------------------ CLI workflow
\* create_endpoint_workflow up to the call of ensure_resources_exist; the
\* CLI always configures CORS
workflow_begin ==
  /\ pc = "idle"
  /\ variant = "none"
  /\ \E c \in Configs :
       /\ c.cors_enabled
       /\ config' = c
       /\ uri_path' = api_resource_path(c.FULL_BACKEND_PATH)
       /\ path_parts' = parse_uri_path(api_resource_path(c.FULL_BACKEND_PATH))
  /\ variant' = "cli"
  /\ pc' = "root"
  /\ UNCHANGED <<remoteVars, failures, runs, lambdaLocals, prev, i, parent_id,
                 final_resource_id, existing_id, confirm, new_id, ret, wf,
                 hist, resources0, parserVars, method_index, success_count,
                 results, response, clientVars, raceVars>>

\* create_endpoint_workflow going on to the methods whatever
\* ensure_resources_exist returned
workflow_resolved_unchecked ==
  /\ pc = "returned"
  /\ variant = "cli"
  /\ hist' = hist
  /\ response' = response
  /\ pc' = "methods"
  /\ method_index' = 1
  /\ UNCHANGED <<remoteVars, failures, runs, variant, uri_path, cliLocals,
                 lambdaLocals, i, parent_id, existing_id, new_id, wf,
                 resources0, prev, parserVars, config, success_count, results,
                 clientVars, raceVars>>

\* create_endpoint_workflow on the return of ensure_resources_exist
workflow_resolved ==
  /\ pc = "returned"
  /\ variant = "cli"
  /\ IF ret = None
     THEN /\ hist' = Append(hist, Ev("logger.error", "", 0, None, None, "workflow"))
          /\ response' = Response(FALSE, "resource", 0)
          /\ pc' = "finished"
          /\ method_index' = method_index
     ELSE /\ hist' = hist
          /\ response' = response
          /\ pc' = "methods"
          /\ method_index' = 1
  /\ UNCHANGED <<remoteVars, failures, runs, variant, uri_path, cliLocals,
                 lambdaLocals, i, parent_id, existing_id, new_id, wf,
                 resources0, prev, parserVars, config, success_count, results,
                 clientVars, raceVars>>

\* one iteration of the loop over HTTP_METHODS
workflow_create_http_method ==
  /\ pc = "methods"
  /\ variant = "cli"
  /\ method_index <= Len(config.HTTP_METHODS)
  /\ \E e \in [1..4 -> PutEnvs] :
       LET http == config.HTTP_METHODS[method_index]
           r == create_http_method(methods, ret, http, After, config.AUTH_TYPE,
                                   config.authorizer_id, e)
       IN /\ Answered(e, 4, r.issued)
          /\ \A k \in 1..4 : AlreadyExists(methods, ret, http, PartsOrder[k], e[k])
          /\ methods' = r.methods
          /\ failures' = failures + NumFailed(e)
          /\ results' = Append(results, r.result)
          /\ success_count' = success_count + (IF r.result THEN 1 ELSE 0)
          /\ hist' = hist \o r.events \o
                       (IF r.result THEN <<>>
                        ELSE <<Ev("logger.error", http, After, ret, None, "method")>>)
  /\ method_index' = method_index + 1
  /\ UNCHANGED <<resources, nextId, runs, pc, variant, uri_path, cliLocals,
                 lambdaLocals, i, parent_id, existing_id, new_id, wf,
                 resources0, prev, parserVars, config, response,
                 clientVars, raceVars>>

\* the OPTIONS method of the leaf, after the loop
workflow_create_options_method ==
  /\ pc = "methods"
  /\ variant = "cli"
  /\ method_index > Len(config.HTTP_METHODS)
  /\ \E e \in [1..4 -> PutEnvs] :
       LET r == create_options_method(methods, ret, After, e)
       IN /\ Answered(e, 4, r.issued)
          /\ \A k \in 1..4 :
               AlreadyExists(methods, ret, "OPTIONS", PartsOrder[k], e[k])
          /\ methods' = r.methods
          /\ failures' = failures + NumFailed(e)
          /\ hist' = hist \o r.events \o
                       (IF r.result THEN <<>>
                        ELSE <<Ev("logger.warning", "OPTIONS", After, ret, None, "options")>>)
  /\ pc' = "verify"
  /\ UNCHANGED <<resources, nextId, runs, variant, uri_path, cliLocals,
                 lambdaLocals, i, parent_id, existing_id, new_id, wf,
                 resources0, prev, parserVars, configVars,
                 clientVars, raceVars>>

\* verify_methods_integration and the return of create_endpoint_workflow
workflow_verify ==
  /\ pc = "verify"
  /\ variant = "cli"
  /\ \E e \in [1..(Len(config.HTTP_METHODS) + 1) -> {"ok", "fail"}] :
       LET r == verify_methods_integration(methods, ret, After,
                                           config.HTTP_METHODS, e)
       IN /\ failures + NumFailed(e) <= MaxFailures
          /\ failures' = failures + NumFailed(e)
          /\ hist' = hist \o r.events \o
                       (IF r.result THEN <<>>
                        ELSE <<Ev("logger.error", "", After, ret, None, "verify")>>)
          /\ response' = IF r.result THEN Response(TRUE, "created", success_count)
                         ELSE Response(FALSE, "verify", success_count)
  /\ pc' = "finished"
  /\ UNCHANGED <<remoteVars, runs, variant, uri_path, cliLocals, lambdaLocals,
                 i, parent_id, existing_id, new_id, wf, resources0, prev,
                 parserVars, config, method_index, success_count, results,
                 clientVars, raceVars>>

\* ------------------------------------------------ Lambda pipeline
\* answers of the remote system to one boto3 call: success, a ClientError
\* other than a conflict, an exception that is no ClientError
LambdaCallEnvs == {"ok", "ClientError", "OtherError"}
\* the same with the ConflictException for an integration or an integration
\* response that exists
LambdaPutEnvs == LambdaCallEnvs \cup {"conflict"}

\* the except clauses of create_http_methods and configure_integrations let
\* a ConflictException pass
Tolerated(out) == out \in {"ok", "conflict"}

\* put_method as the remote system answers it: an authorizer-backed method
\* needs an authorizer id
lambda_put_method_outcome(ms, rid, http, authorization_type, authorizer_id, env) ==
  IF env # "ok" THEN env
  ELSE IF authorization_type = "COGNITO_USER_POOLS" /\ authorizer_id = None
       THEN "rejected"
  ELSE RemotePutOutcome(ms, rid, http, "method", env)

\* create_http_methods(api_id, resource_id, http_methods, payload) with the
\* authentication method AUTHORIZER: one put_method per method until one
\* raises something else than a conflict
create_http_methods(ms, rid, http_methods, seg, auth_type, payload_authorizer_id, e) ==
  LET authorization_type == IF auth_type = "NO_AUTH" THEN "NONE"
                            ELSE "COGNITO_USER_POOLS"
      authorizer_id == IF auth_type = "NO_AUTH" THEN None
                       ELSE payload_authorizer_id
      out(k) == lambda_put_method_outcome(ms, rid, http_methods[k],
                                          authorization_type, authorizer_id, e[k])
      success == \A k \in 1..Len(http_methods) : Tolerated(out(k))
      last == IF success THEN Len(http_methods)
              ELSE CHOOSE k \in 1..Len(http_methods) :
                     ~ Tolerated(out(k)) /\ \A j \in 1..(k - 1) : Tolerated(out(j))
  IN [methods |-> ms \cup {<<rid, http_methods[k], "method">> :
                             k \in {j \in 1..last : out(j) = "ok"}},
      events |-> [k \in 1..last |->
                    PutMethodEv(http_methods[k], seg, rid, out(k),
                                authorization_type, authorizer_id)],
      success |-> success,
      issued |-> last]

\* configure_integrations from method k on: put_integration,
\* put_method_response and put_integration_response in one try; a conflict
\* ends the method, anything else raised ends the function
RECURSIVE configure_integrations(_, _, _, _, _, _)
configure_integrations(ms, rid, http_methods, seg, e, k) ==
  IF k > Len(http_methods)
  THEN [methods |-> ms, events |-> <<>>, success |-> TRUE, used |-> {}]
  ELSE
    LET b == 3 * (k - 1)
        http == http_methods[k]
        o1 == RemotePutOutcome(ms, rid, http, "integration", e[b + 1])
        m1 == RemotePut(ms, rid, http, "integration", e[b + 1])
        o2 == RemotePutOutcome(m1, rid, http, "methodResponse", e[b + 2])
        m2 == RemotePut(m1, rid, http, "methodResponse", e[b + 2])
        o3 == RemotePutOutcome(m2, rid, http, "integrationResponse", e[b + 3])
        m3 == RemotePut(m2, rid, http, "integrationResponse", e[b + 3])
        n == IF o1 # "ok" THEN 1 ELSE IF o2 # "ok" THEN 2 ELSE 3
        last == IF n = 1 THEN o1 ELSE IF n = 2 THEN o2 ELSE o3
        after == IF n = 1 THEN m1 ELSE IF n = 2 THEN m2 ELSE m3
        evs == SubSeq(<<Ev("put-integration", http, seg, rid, None, o1),
                        Ev("put-method-response", http, seg, rid, None, o2),
                        Ev("put-integration-response", http, seg, rid, None, o3)>>,
                      1, n)
        rest == configure_integrations(after, rid, http_methods, seg, e, k + 1)
    IN IF ~ Tolerated(last)
       THEN [methods |-> after, events |-> evs, success |-> FALSE,
             used |-> (b + 1)..(b + n)]
       ELSE [methods |-> rest.methods, events |-> evs \o rest.events,
             success |-> rest.success, used |-> ((b + 1)..(b + n)) \cup rest.used]

\* create_cors_method(api_id, resource_id, cors_config): nothing when CORS
\* is disabled; else only put_method lets a conflict pass
create_cors_method(ms, rid, seg, enabled, e) ==
  LET o1 == RemotePutOutcome(ms, rid, "OPTIONS", "method", e[1])
      m1 == RemotePut(ms, rid, "OPTIONS", "method", e[1])
      o2 == RemotePutOutcome(m1, rid, "OPTIONS", "integration", e[2])
      m2 == RemotePut(m1, rid, "OPTIONS", "integration", e[2])
      o3 == RemotePutOutcome(m2, rid, "OPTIONS", "methodResponse", e[3])
      m3 == RemotePut(m2, rid, "OPTIONS", "methodResponse", e[3])
      o4 == RemotePutOutcome(m3, rid, "OPTIONS", "integrationResponse", e[4])
      m4 == RemotePut(m3, rid, "OPTIONS", "integrationResponse", e[4])
      evs == <<PutMethodEv("OPTIONS", seg, rid, o1, "NONE", None),
               Ev("put-integration", "OPTIONS", seg, rid, None, o2),
               Ev("put-method-response", "OPTIONS", seg, rid, None, o3),
               Ev("put-integration-response", "OPTIONS", seg, rid, None, o4)>>
      n == IF ~ Tolerated(o1) THEN 1 ELSE IF o2 # "ok" THEN 2
           ELSE IF o3 # "ok" THEN 3 ELSE 4
  IN IF ~ enabled
     THEN [methods |-> ms, events |-> <<>>, success |-> TRUE, issued |-> 0]
     ELSE [methods |-> IF n = 1 THEN m1 ELSE IF n = 2 THEN m2
                       ELSE IF n = 3 THEN m3 ELSE m4,
           events |-> SubSeq(evs, 1, n),
           success |-> n = 4 /\ o4 = "ok",
           issued |-> n]

\* verify_integrations(api_id, resource_id, methods): get_integration per
\* method until one raises; only a ClientError is caught
verify_integrations(ms, rid, seg, all_methods, e) ==
  LET out(k) == IF e[k] # "ok" THEN e[k]
                ELSE IF <<rid, all_methods[k], "integration">> \in ms THEN "ok"
                ELSE "rejected"
      success == \A k \in 1..Len(all_methods) : out(k) = "ok"
      last == IF success THEN Len(all_methods)
              ELSE CHOOSE k \in 1..Len(all_methods) :
                     out(k) # "ok" /\ \A j \in 1..(k - 1) : out(j) = "ok"
  IN [events |-> [k \in 1..last |->
                    Ev("get-integration", all_methods[k], seg, rid, None, out(k))],
      success |-> success,
      raised |-> ~ success /\ out(last) = "OtherError",
      issued |-> last]

\* _create_endpoint steps 1 and 2 for a payload the client built
pipeline_begin ==
  /\ pc = "idle"
  /\ variant = "none"
  /\ \E c \in Configs :
       /\ config' = c
       /\ uri_path' = payload_api_gateway_path(c.FULL_BACKEND_PATH)
       /\ segments' = parse_segments(payload_api_gateway_path(c.FULL_BACKEND_PATH))
  /\ variant' = "lambda"
  /\ pc' = "root"
  /\ UNCHANGED <<remoteVars, failures, runs, cliLocals, prev, i, parent_id,
                 existing_id, new_id, current_path, created_count,
                 skipped_count, lret, wf, hist, resources0, parserVars,
                 method_index, success_count, results, response,
                 clientVars, raceVars>>

\* _create_endpoint on the return of create_resource_hierarchy
pipeline_resolved ==
  /\ pc = "returned"
  /\ variant = "lambda"
  /\ IF lret.success
     THEN /\ pc' = "methods"
          /\ response' = response
     ELSE /\ pc' = "finished"
          /\ response' = Response(FALSE, "RESOURCE_CREATION_FAILED", 0)
  /\ UNCHANGED <<remoteVars, failures, runs, variant, uri_path, cliLocals,
                 lambdaLocals, i, parent_id, existing_id, new_id, wf, hist,
                 resources0, prev, parserVars, config, method_index,
                 success_count, results, clientVars, raceVars>>

\* _create_endpoint step 3
pipeline_create_http_methods ==
  /\ pc = "methods"
  /\ variant = "lambda"
  /\ \E e \in [1..Len(config.HTTP_METHODS) -> LambdaCallEnvs] :
       LET r == create_http_methods(methods, lret.resource_id, config.HTTP_METHODS,
                                    After, config.AUTH_TYPE, config.authorizer_id, e)
       IN /\ Answered(e, Len(config.HTTP_METHODS), r.issued)
          /\ methods' = r.methods
          /\ failures' = failures + NumFailed(e)
          /\ hist' = hist \o r.events
          /\ IF r.success
             THEN /\ pc' = "integrations"
                  /\ response' = response
             ELSE /\ pc' = "finished"
                  /\ response' = Response(FALSE, "METHOD_CREATION_FAILED", 0)
  /\ UNCHANGED <<resources, nextId, runs, variant, uri_path, cliLocals,
                 lambdaLocals, i, parent_id, existing_id, new_id, wf,
                 resources0, prev, parserVars, config, method_index,
                 success_count, results, clientVars, raceVars>>

\* _create_endpoint step 4
pipeline_configure_integrations ==
  /\ pc = "integrations"
  /\ variant = "lambda"
  /\ \E e \in [1..(3 * Len(config.HTTP_METHODS)) -> LambdaPutEnvs] :
       LET r == configure_integrations(methods, lret.resource_id,
                                       config.HTTP_METHODS, After, e, 1)
       IN /\ failures + NumFailed(e) <= MaxFailures
          /\ \A j \in DOMAIN e : j \notin r.used => e[j] = "ok"
          /\ \A j \in DOMAIN e :
               AlreadyExists(methods, lret.resource_id,
                             config.HTTP_METHODS[((j - 1) \div 3) + 1],
                             PartsOrder[((j - 1) % 3) + 2], e[j])
          /\ methods' = r.methods
          /\ failures' = failures + NumFailed(e)
          /\ hist' = hist \o r.events
          /\ IF r.success
             THEN /\ pc' = "cors"
                  /\ response' = response
             ELSE /\ pc' = "finished"
                  /\ response' = Response(FALSE, "INTEGRATION_FAILED", 0)
  /\ UNCHANGED <<resources, nextId, runs, variant, uri_path, cliLocals,
                 lambdaLocals, i, parent_id, existing_id, new_id, wf,
                 resources0, prev, parserVars, config, method_index,
                 success_count, results, clientVars, raceVars>>

\* _create_endpoint step 5 with a failure of the CORS step answered by an
\* error response
pipeline_create_cors_method_critical ==
  /\ pc = "cors"
  /\ variant = "lambda"
  /\ \E e \in [1..4 -> LambdaPutEnvs] :
       LET r == create_cors_method(methods, lret.resource_id, After,
                                   config.cors_enabled, e)
       IN /\ Answered(e, 4, r.issued)
          /\ \A k \in 1..4 :
               AlreadyExists(methods, lret.resource_id, "OPTIONS", PartsOrder[k], e[k])
          /\ methods' = r.methods
          /\ failures' = failures + NumFailed(e)
          /\ hist' = hist \o r.events
          /\ results' = Append(results, r.success)
          /\ IF r.success
             THEN /\ pc' = "verify"
                  /\ response' = response
             ELSE /\ pc' = "finished"
                  /\ response' = Response(FALSE, "CORS_FAILED", 0)
  /\ UNCHANGED <<resources, nextId, runs, variant, uri_path, cliLocals,
                 lambdaLocals, i, parent_id, existing_id, new_id, wf,
                 resources0, prev, parserVars, config, method_index,
                 success_count, clientVars, raceVars>>

\* _create_endpoint step 5: a failure is not critical
pipeline_create_cors_method ==
  /\ pc = "cors"
  /\ variant = "lambda"
  /\ \E e \in [1..4 -> LambdaPutEnvs] :
       LET r == create_cors_method(methods, lret.resource_id, After,
                                   config.cors_enabled, e)
       IN /\ Answered(e, 4, r.issued)
          /\ \A k \in 1..4 :
               AlreadyExists(methods, lret.resource_id, "OPTIONS", PartsOrder[k], e[k])
          /\ methods' = r.methods
          /\ failures' = failures + NumFailed(e)
          /\ hist' = hist \o r.events
          /\ results' = Append(results, r.success)
  /\ pc' = "verify"
  /\ UNCHANGED <<resources, nextId, runs, variant, uri_path, cliLocals,
                 lambdaLocals, i, parent_id, existing_id, new_id, wf,
                 resources0, prev, parserVars, config, method_index,
                 success_count, response, clientVars, raceVars>>

\* _create_endpoint step 6 and its response
pipeline_verify_integrations ==
  /\ pc = "verify"
  /\ variant = "lambda"
  /\ \E e \in [1..(Len(config.HTTP_METHODS) + 1) -> LambdaCallEnvs] :
       LET r == verify_integrations(methods, lret.resource_id, After,
                                    Append(config.HTTP_METHODS, "OPTIONS"), e)
       IN /\ Answered(e, Len(config.HTTP_METHODS) + 1, r.issued)
          /\ failures' = failures + NumFailed(e)
          /\ hist' = hist \o r.events
          /\ response' =
               IF r.success
               THEN Response(TRUE, "ok", Len(config.HTTP_METHODS))
               ELSE IF r.raised
               THEN Response(FALSE, "ENDPOINT_CREATION_ERROR", 0)
               ELSE Response(FALSE, "VERIFICATION_FAILED", 0)
  /\ pc' = "finished"
  /\ UNCHANGED <<remoteVars, runs, variant, uri_path, cliLocals, lambdaLocals,
                 i, parent_id, existing_id, new_id, wf, resources0, prev,
                 parserVars, config, method_index, success_count, results,
                 clientVars, raceVars>>

WorkflowNext ==
  \/ workflow_begin
  \/ get_root_resource_id
  \/ find_resource_by_path
  \/ confirm_prompt
  \/ create_resource
  \/ attach_default_options
  \/ workflow_resolved
  \/ workflow_create_http_method
  \/ workflow_create_options_method
  \/ workflow_verify
  \/ pipeline_begin
  \/ lambda_get_root_resource_id
  \/ lambda_find_resource_by_path
  \/ lambda_create_resource
  \/ pipeline_resolved
  \/ pipeline_create_http_methods
  \/ pipeline_configure_integrations
  \/ pipeline_create_cors_method
  \/ pipeline_verify_integrations

WorkflowSpec == WorkflowInit /\ [][WorkflowNext]_vars

\* ====================================================================
\* The Lambda client and the handler: LambdaClient processes on one host
\* send create_endpoint requests; the handler parses, validates and
\* dispatches each event.
\* ====================================================================

\* bound on the events that reach the handler wrapped in a body
MaxProxyEvents == 1

\* json.dumps / json.loads: a text that holds the value
Dumps(d) == <<"json", d>>
Loads(text) == text[2]

\* the backend paths the operator of a client types
ClientBackendPaths == {<<"/", "a", "/", "a">>, <<"a">>}

\* s.startswith("/")
StartsWithSlash(path) == path # <<>> /\ Head(path) = "/"

\* EndpointCreatorLambda._build_lambda_payload for the API api_id
build_lambda_payload(api_id, full_backend_path, http_methods) ==
  [EmptyPayload EXCEPT
     !.keys = {"config", "authentication", "endpoint", "integration",
               "headers", "cors"},
     !.api_id = api_id,
     !.config_keys = {"api_id", "api_name", "stage"},
     !.endpoint_keys = {"full_backend_path", "api_gateway_path", "http_methods"},
     !.integration_keys = {"connection_variable", "backend_host"},
     !.auth_keys = {"method", "authorizer_id", "auth_type", "cognito_pool"},
     !.auth_method = "AUTHORIZER",
     !.http_methods = http_methods,
     !.full_backend_path = full_backend_path,
     !.api_gateway_path = payload_api_gateway_path(full_backend_path)]

\* LambdaClient.create_endpoint: {"operation": "create_endpoint", **config}
create_endpoint_payload(config_) ==
  [config_ EXCEPT
     !.keys = config_.keys \cup {"operation"},
     !.operation = IF "operation" \in config_.keys THEN config_.operation
                   ELSE "create_endpoint"]

\* the default of event.get('body', '{}')
DefaultBody == [is_str |-> TRUE, value |-> Dumps(EmptyPayload)]

\* the event of "aws lambda invoke --payload <text>": the parsed text itself
DirectEvent(payload_json) ==
  [keys |-> Loads(payload_json).keys, body |-> DefaultBody,
   top |-> Loads(payload_json)]

\* the event of a caller that wraps the request in a body, as a proxy does
ProxyEvent(payload_) ==
  [keys |-> {"body"}, body |-> [is_str |-> TRUE, value |-> Dumps(payload_)],
   top |-> EmptyPayload]

\* index._parse_request
parse_request(event) ==
  LET body == IF "body" \in event.keys THEN event.body ELSE DefaultBody
  IN IF body.is_str THEN Loads(body.value) ELSE body.value

\* validators._validate_create_endpoint: the error, "" when valid
validate_create_endpoint(payload_) ==
  IF ~({"config", "endpoint", "integration"} \subseteq payload_.keys)
  THEN "Missing section"
  ELSE IF "api_id" \notin payload_.config_keys THEN "Missing 'config.api_id'"
  ELSE IF ~({"full_backend_path", "api_gateway_path", "http_methods"}
              \subseteq payload_.endpoint_keys)
  THEN "Missing endpoint field"
  ELSE IF Len(payload_.http_methods) = 0
  THEN "http_methods must be a non-empty list"
  ELSE IF \E k \in DOMAIN payload_.http_methods :
            payload_.http_methods[k]
              \notin {"GET", "POST", "PUT", "DELETE", "PATCH", "HEAD"}
  THEN "Invalid HTTP method"
  ELSE IF ~StartsWithSlash(payload_.full_backend_path)
  THEN "full_backend_path must start with /"
  ELSE IF ~StartsWithSlash(payload_.api_gateway_path)
  THEN "api_gateway_path must start with /"
  ELSE IF ~({"connection_variable", "backend_host"}
              \subseteq payload_.integration_keys)
  THEN "Missing integration field"
  ELSE IF /\ "authentication" \in payload_.keys
          /\ "method" \in payload_.auth_keys
          /\ payload_.auth_method \notin {"AUTHORIZER", "API_KEY"}
  THEN "Invalid auth method"
  ELSE IF /\ "authentication" \in payload_.keys
          /\ "method" \in payload_.auth_keys
          /\ payload_.auth_method = "AUTHORIZER"
          /\ "authorizer_id" \notin payload_.auth_keys
  THEN "authorizer_id required for AUTHORIZER method"
  ELSE ""

\* validators.validate_payload: the error, "" when valid
validate_payload(payload_) ==
  IF "operation" \notin payload_.keys THEN "Missing 'operation' field"
  ELSE IF payload_.operation \notin {"create_endpoint", "get_header_options"}
  THEN "Invalid operation"
  ELSE IF payload_.operation = "create_endpoint"
  THEN validate_create_endpoint(payload_)
  ELSE ""

\* how _create_endpoint can end: "ok" or the error code of the failing step
PipelineOutcomes ==
  {"ok", "RESOURCE_CREATION_FAILED", "METHOD_CREATION_FAILED",
   "INTEGRATION_FAILED", "VERIFICATION_FAILED", "ENDPOINT_CREATION_ERROR"}

\* index.handler on one event of the client to, the pipeline ending in
\* outcome when it is run: what was parsed, the validation error, the
\* operation dispatched, whether the gateway was called, and the reply
handler(event, to, outcome) ==
  LET payload_ == parse_request(event)
      error == validate_payload(payload_)
      operation == IF "operation" \in payload_.keys THEN payload_.operation
                   ELSE "create_endpoint"
  IN IF error # ""
     THEN [client |-> to, event |-> event, parsed |-> payload_, error |-> error,
           dispatched |-> "", gateway |-> FALSE,
           reply |-> [none |-> FALSE, to |-> to, success |-> FALSE,
                      error_code |-> "INVALID_PAYLOAD"]]
     ELSE IF operation = "create_endpoint"
     THEN [client |-> to, event |-> event, parsed |-> payload_, error |-> "",
           dispatched |-> "create_endpoint", gateway |-> TRUE,
           reply |-> [none |-> FALSE, to |-> to, success |-> outcome = "ok",
                      error_code |-> IF outcome = "ok" THEN "" ELSE outcome]]
     ELSE [client |-> to, event |-> event, parsed |-> payload_, error |-> "",
           dispatched |-> "get_header_options", gateway |-> FALSE,
           reply |-> [none |-> FALSE, to |-> to, success |-> TRUE,
                      error_code |-> ""]]

ClientInit ==
  /\ resources = {RootNode}
  /\ nextId = 2
  /\ methods = {}
  /\ pc = "clients"
  /\ AtRest
  /\ input_path = <<>>
  /\ result = NoResult
  /\ config = NoConfig

\* what no step of a client or of the handler touches
clientFrame ==
  <<remoteVars, runs, pc, variant, uri_path, cliLocals, lambdaLocals, i,
    parent_id, existing_id, new_id, wf, hist, resources0, prev, parserVars,
    configVars, raceVars>>

\* create_endpoint_via_lambda up to LambdaClient.invoke: the payload is built
\* and handed to invoke
client_create_endpoint(c) ==
  /\ clients[c].pc = "idle"
  /\ \E full_backend_path \in ClientBackendPaths :
       clients' = [clients EXCEPT
                     ![c].pc = "invoke",
                     ![c].payload = create_endpoint_payload(
                                      build_lambda_payload(c, full_backend_path,
                                                           <<"GET">>))]
  /\ UNCHANGED <<failures, lambda_response_file, invocations, clientFrame>>

\* LambdaClient.invoke, subprocess.run: the Lambda handles the event and the
\* command writes its answer to /tmp/lambda_response.json, or the command
\* exits non-zero and invoke returns None
invoke_subprocess_run(c) ==
  /\ clients[c].pc = "invoke"
  /\ \E env \in CliEnvs, outcome \in PipelineOutcomes :
       LET handled == handler(DirectEvent(Dumps(clients[c].payload)), c, outcome)
       IN IF env = "ok"
          THEN /\ invocations' = Append(invocations, handled)
               /\ lambda_response_file' = handled.reply
               /\ clients' = [clients EXCEPT ![c].pc = "read"]
               /\ failures' = failures
          ELSE /\ clients' = [clients EXCEPT
                                ![c].pc = "done",
                                ![c].returned = [NoReply EXCEPT !.none = TRUE]]
               /\ failures' = failures + 1
               /\ UNCHANGED <<invocations, lambda_response_file>>
  /\ UNCHANGED clientFrame

\* LambdaClient.invoke, the rest: the file is opened and read, its body is
\* parsed; LambdaClient.create_endpoint returns the body
invoke_read_response(c) ==
  /\ clients[c].pc = "read"
  /\ clients' = [clients EXCEPT ![c].pc = "done",
                                ![c].returned = lambda_response_file]
  /\ UNCHANGED <<failures, lambda_response_file, invocations, clientFrame>>

\* index.handler on an event that carries the request in its body
proxy_invoke ==
  /\ Cardinality({k \in DOMAIN invocations : invocations[k].client = 0})
       < MaxProxyEvents
  /\ \E operation \in {"create_endpoint", "get_header_options", "x"},
        full_backend_path \in ClientBackendPaths,
        outcome \in PipelineOutcomes :
       invocations' =
         Append(invocations,
                handler(ProxyEvent(
                          [build_lambda_payload(0, full_backend_path, <<"GET">>)
                             EXCEPT !.keys = @ \cup {"operation"},
                                    !.operation = operation]),
                        0, outcome))
  /\ UNCHANGED <<failures, clients, lambda_response_file, clientFrame>>

ClientNext ==
  \/ \E c \in ClientIds : client_create_endpoint(c)
  \/ \E c \in ClientIds : invoke_subprocess_run(c)
  \/ \E c \in ClientIds : invoke_read_response(c)
  \/ proxy_invoke

ClientSpec == ClientInit /\ [][ClientNext]_vars

\* ------------------------------------- two reconcile runs on the same API
\* Two processes reconcile the same path against the same REST API. Each
\* holds its own locals (racers[r]); the remote tree, the remote methods and
\* the id counter of the remote system are the only things they share. One
\* step is one remote call or one prompt together with the branch the code
\* takes on its result, so the steps of the two runs interleave between any
\* two calls.
RaceInit ==
  /\ resources \in InitialTrees
  /\ nextId = Cardinality(resources) + 1
  /\ methods = {}
  /\ pc = "race"
  /\ AtRest
  /\ input_path = <<>>
  /\ result = NoResult
  /\ config = NoConfig

\* what no step of a racing run touches
raceFrame ==
  <<runs, pc, variant, path_parts, segments, current_path, final_resource_id,
    confirm, ret, created_count, skipped_count, lret, i, parent_id,
    existing_id, new_id, wf, hist, resources0, prev, parserVars, configVars,
    clientVars>>

\* the path both runs are given: the first run to start fixes it
RacePaths == IF \E r \in RacerIds : racers[r].pc # "idle" THEN {uri_path} ELSE Paths

\* a run starts, as the CLI workflow or as the Lambda pipeline
race_begin(r) ==
  /\ pc = "race"
  /\ racers[r].pc = "idle"
  /\ \E p \in RacePaths, v \in {"cli", "lambda"} :
       /\ uri_path' = p
       /\ racers' = [racers EXCEPT ![r] = [NoRacer EXCEPT !.pc = "root", !.variant = v]]
  /\ UNCHANGED <<remoteVars, failures, raceFrame>>

\* the run is over with the value it returns
RaceReturn(r, rid, log) ==
  [racers[r] EXCEPT !.pc = "returned", !.ret = rid, !.log = log]

\* ensure_resources_exist: get_root_resource_id
race_cli_get_root_resource_id(r) ==
  /\ pc = "race"
  /\ racers[r].pc = "root"
  /\ racers[r].variant = "cli"
  /\ \E env \in CliEnvs :
       LET rid == IF env = "ok" THEN Lookup(resources, <<"/">>) ELSE None
           log == Append(racers[r].log, Ev("get-resources", "", 0, None, rid, env))
       IN /\ failures' = failures + Failed(env)
          /\ racers' = [racers EXCEPT ![r] =
               IF parse_uri_path(uri_path) = <<>>
               THEN RaceReturn(r, rid, log)
               ELSE [racers[r] EXCEPT !.pc = "find", !.parent_id = rid,
                                      !.i = 1, !.log = log]]
  /\ UNCHANGED <<remoteVars, uri_path, raceFrame>>

\* the end of one iteration of the loop of ensure_resources_exist
RaceCliAdvance(r, rid, log) ==
  IF racers[r].i = Len(parse_uri_path(uri_path))
  THEN RaceReturn(r, rid, log)
  ELSE [racers[r] EXCEPT !.pc = "find", !.i = racers[r].i + 1,
                         !.parent_id = rid, !.existing_id = rid, !.log = log]

\* ensure_resources_exist: find_resource_by_path(part["path"]) and the
\* branch on its result
race_cli_find_resource_by_path(r) ==
  /\ pc = "race"
  /\ racers[r].pc = "find"
  /\ racers[r].variant = "cli"
  /\ \E env \in CliEnvs :
       LET k == racers[r].i
           rid == IF env = "ok"
                  THEN Lookup(resources, parse_uri_path(uri_path)[k].path)
                  ELSE None
           log == Append(racers[r].log, Ev("get-resources", "", k, None, rid, env))
       IN /\ failures' = failures + Failed(env)
          /\ racers' = [racers EXCEPT ![r] =
               IF rid # None
               THEN RaceCliAdvance(r, rid, log)
               ELSE [racers[r] EXCEPT !.pc = "confirm", !.existing_id = rid,
                                      !.log = log]]
  /\ UNCHANGED <<remoteVars, uri_path, raceFrame>>

\* ensure_resources_exist: the prompt and the branch on the answer
race_cli_confirm_prompt(r) ==
  /\ pc = "race"
  /\ racers[r].pc = "confirm"
  /\ racers[r].variant = "cli"
  /\ \E a \in Answers :
       LET log == Append(racers[r].log, Ev("input", "", racers[r].i, None, None, a))
       IN racers' = [racers EXCEPT ![r] =
            IF Lower(a) # "s"
            THEN RaceReturn(r, None, log)
            ELSE [racers[r] EXCEPT !.pc = "create", !.log = log]]
  /\ UNCHANGED <<remoteVars, failures, uri_path, raceFrame>>

\* ensure_resources_exist: create_resource(parent_id, part["segment"]), and
\* on its success create_options_method(new_id, "DEFAULT") and the end of
\* the iteration
race_cli_create_resource(r) ==
  /\ pc = "race"
  /\ racers[r].pc = "create"
  /\ racers[r].variant = "cli"
  /\ \E env \in CliEnvs :
       LET k == racers[r].i
           seg == parse_uri_path(uri_path)[k].segment
           out == IF env = "ok"
                  THEN RemoteCreateOutcome(resources, racers[r].parent_id, seg)
                  ELSE env
       IN IF run_command_success(out, FALSE)
          THEN /\ resources' = resources \cup
                                 {NewNode(resources, nextId, racers[r].parent_id, seg)}
               /\ nextId' = nextId + 1
               /\ \E e \in OptionsEnvs :
                    /\ methods' = create_options_method(methods, nextId, k, e).methods
                    /\ failures' = failures + NumFailed(e)
               /\ racers' = [racers EXCEPT ![r] =
                    RaceCliAdvance(r, nextId,
                      Append(racers[r].log,
                             Ev("create-resource", "", k, racers[r].parent_id, nextId, out)))]
          ELSE /\ UNCHANGED <<resources, nextId, methods>>
               /\ failures' = failures + Failed(env)
               /\ racers' = [racers EXCEPT ![r] =
                    RaceReturn(r, None,
                      Append(racers[r].log,
                             Ev("create-resource", "", k, racers[r].parent_id, None, out)))]
  /\ UNCHANGED <<uri_path, raceFrame>>

\* create_resource_hierarchy: _get_root_resource_id and the head of the loop
race_lambda_get_root_resource_id(r) ==
  /\ pc = "race"
  /\ racers[r].pc = "root"
  /\ racers[r].variant = "lambda"
  /\ \E env \in LambdaEnvs :
       LET root_id == IF env = "ok" THEN Lookup(resources, <<"/">>) ELSE None
           log == Append(racers[r].log, Ev("get-resources", "", 0, None, root_id, env))
       IN /\ failures' = failures + Failed(env)
          /\ racers' = [racers EXCEPT ![r] =
               IF env = "OtherError" \/ root_id = None
               THEN RaceReturn(r, None, log)
               ELSE IF parse_segments(uri_path) = <<>>
               THEN RaceReturn(r, root_id, log)
               ELSE [racers[r] EXCEPT !.pc = "find", !.parent_id = root_id,
                                      !.i = 1, !.log = log]]
  /\ UNCHANGED <<remoteVars, uri_path, raceFrame>>

\* the end of one iteration of the loop of create_resource_hierarchy
RaceLambdaAdvance(r, rid, path, log) ==
  IF racers[r].i = Len(parse_segments(uri_path))
  THEN [RaceReturn(r, rid, log) EXCEPT !.current_path = path]
  ELSE [racers[r] EXCEPT !.pc = "find", !.i = racers[r].i + 1,
                         !.parent_id = rid, !.current_path = path, !.log = log]

\* create_resource_hierarchy: _find_resource_by_path(api_id, current_path)
\* and the branch on its result
race_lambda_find_resource_by_path(r) ==
  /\ pc = "race"
  /\ racers[r].pc = "find"
  /\ racers[r].variant = "lambda"
  /\ \E env \in LambdaEnvs :
       LET k == racers[r].i
           path == racers[r].current_path \o <<"/">> \o parse_segments(uri_path)[k]
           rid == IF env = "ok" THEN Lookup(resources, path) ELSE None
           log == Append(racers[r].log, Ev("get-resources", "", k, None, rid, env))
       IN /\ failures' = failures + Failed(env)
          /\ racers' = [racers EXCEPT ![r] =
               IF env = "OtherError"
               THEN [RaceReturn(r, None, log) EXCEPT !.current_path = path]
               ELSE IF rid # None
               THEN [RaceLambdaAdvance(r, rid, path, log) EXCEPT !.existing_id = rid]
               ELSE [racers[r] EXCEPT !.pc = "create", !.existing_id = rid,
                                      !.current_path = path, !.log = log]]
  /\ UNCHANGED <<remoteVars, uri_path, raceFrame>>

\* create_resource_hierarchy with a rejected creation answered by taking the
\* node that is there: the run looks the path up again and goes on
race_lambda_create_resource_adopting(r) ==
  /\ pc = "race"
  /\ racers[r].pc = "create"
  /\ racers[r].variant = "lambda"
  /\ \E env \in LambdaEnvs :
       LET k == racers[r].i
           seg == parse_segments(uri_path)[k]
           out == IF env = "ok"
                  THEN RemoteCreateOutcome(resources, racers[r].parent_id, seg)
                  ELSE env
       IN /\ failures' = failures + Failed(env)
          /\ IF out = "ok"
             THEN /\ resources' = resources \cup
                                    {NewNode(resources, nextId, racers[r].parent_id, seg)}
                  /\ nextId' = nextId + 1
                  /\ racers' = [racers EXCEPT ![r] =
                       RaceLambdaAdvance(r, nextId, racers[r].current_path,
                         Append(racers[r].log,
                                Ev("create-resource", "", k, racers[r].parent_id, nextId, out)))]
             ELSE IF out = "conflict"
             THEN /\ UNCHANGED <<resources, nextId>>
                  /\ racers' = [racers EXCEPT ![r] =
                       RaceLambdaAdvance(r, Lookup(resources, racers[r].current_path),
                         racers[r].current_path,
                         Append(racers[r].log,
                                Ev("create-resource", "", k, racers[r].parent_id, None, out)))]
             ELSE /\ UNCHANGED <<resources, nextId>>
                  /\ racers' = [racers EXCEPT ![r] =
                       RaceReturn(r, None,
                         Append(racers[r].log,
                                Ev("create-resource", "", k, racers[r].parent_id, None, out)))]
  /\ UNCHANGED <<methods, uri_path, raceFrame>>

\* create_resource_hierarchy: _create_resource(api_id, parent_id, segment)
\* and the branch on its result
race_lambda_create_resource(r) ==
  /\ pc = "race"
  /\ racers[r].pc = "create"
  /\ racers[r].variant = "lambda"
  /\ \E env \in LambdaEnvs :
       LET k == racers[r].i
           seg == parse_segments(uri_path)[k]
           out == IF env = "ok"
                  THEN RemoteCreateOutcome(resources, racers[r].parent_id, seg)
                  ELSE env
       IN /\ failures' = failures + Failed(env)
          /\ IF out = "ok"
             THEN /\ resources' = resources \cup
                                    {NewNode(resources, nextId, racers[r].parent_id, seg)}
                  /\ nextId' = nextId + 1
                  /\ racers' = [racers EXCEPT ![r] =
                       RaceLambdaAdvance(r, nextId, racers[r].current_path,
                         Append(racers[r].log,
                                Ev("create-resource", "", k, racers[r].parent_id, nextId, out)))]
             ELSE /\ UNCHANGED <<resources, nextId>>
                  /\ racers' = [racers EXCEPT ![r] =
                       RaceReturn(r, None,
                         Append(racers[r].log,
                                Ev("create-resource", "", k, racers[r].parent_id, None, out)))]
  /\ UNCHANGED <<methods, uri_path, raceFrame>>

RaceNext ==
  \/ \E r \in RacerIds : race_begin(r)
  \/ \E r \in RacerIds : race_cli_get_root_resource_id(r)
  \/ \E r \in RacerIds : race_cli_find_resource_by_path(r)
  \/ \E r \in RacerIds : race_cli_confirm_prompt(r)
  \/ \E r \in RacerIds : race_cli_create_resource(r)
  \/ \E r \in RacerIds : race_lambda_get_root_resource_id(r)
  \/ \E r \in RacerIds : race_lambda_find_resource_by_path(r)
  \/ \E r \in RacerIds : race_lambda_create_resource(r)

RaceSpec == RaceInit /\ [][RaceNext]_vars

\* ------------------------------------------------------- claims, parsers

\* the non-empty segments of a path, root to leaf: the maximal runs of
\* characters other than "/"
RECURSIVE NonEmptySegments(_)
NonEmptySegments(s) ==
  LET t == LStrip(s)
  IN IF t = <<>> THEN <<>>
     ELSE LET stop == IF Contains(t, "/")
                      THEN CHOOSE j \in 1..Len(t) :
                             t[j] = "/" /\ \A q \in 1..(j - 1) : t[q] # "/"
                      ELSE Len(t) + 1
          IN <<SubSeq(t, 1, stop - 1)>> \o NonEmptySegments(SubSeq(t, stop, Len(t)))

IsPrefix(s, t) == Len(s) <= Len(t) /\ SubSeq(t, 1, Len(s)) = s

\* C11 (as stated): for a path with n non-empty segments, repeated, leading
\* and trailing slashes included, the parser returns exactly these n segments
\* in root-to-leaf order, and the cumulative path of segment k is "/" plus the
\* segments up to k joined by "/": the cumulative paths start with "/" and
\* each is a proper prefix of the next.
C11_ParserSegments ==
  LET segs == NonEmptySegments(input_path)
  IN /\ (result.fn = "parse_uri_path" /\ ~ result.raised) =>
          /\ Len(result.parts) = Len(segs)
          /\ \A k \in 1..Len(result.parts) :
               /\ result.parts[k].segment = segs[k]
               /\ result.parts[k].path = <<"/">> \o Join(SubSeq(segs, 1, k))
               /\ Head(result.parts[k].path) = "/"
               /\ k > 1 => /\ IsPrefix(result.parts[k - 1].path, result.parts[k].path)
                           /\ Len(result.parts[k - 1].path) < Len(result.parts[k].path)
     /\ result.fn = "parse_segments" => result.segs = segs

\* C12 (as stated): the parser returns a segment list for every string and
\* raises nothing, also when a segment holds braces that are no well-formed
\* placeholder.
C12_ParserNeverRaises ==
  result.fn \in {"parse_uri_path", "parse_segments"} => ~ result.raised

C20_PathParameters ==
  result.fn \in {"create_http_method", "configure_integrations"} =>
    LET mappedKeys == {k \in DOMAIN result.mapped : k[1] = IntegrationPath}
    IN /\ {k[2] : k \in mappedKeys} = {k[2] : k \in DOMAIN result.declared}
       /\ \A k \in DOMAIN result.declared : k[1] = MethodPath /\ result.declared[k]
       /\ \A k \in mappedKeys :
            /\ result.mapped[k] = <<MethodPath, k[2]>>
            /\ result.mapped[k] \in DOMAIN result.declared

\* the backend path "a/{a}": the parameter a of its resource path "/{a}" is
\* declared and mapped, next to a header
C20_Witness ==
  /\ result.fn = "create_http_method"
  /\ input_path = <<"a", "/", "{", "a", "}">>
  /\ DOMAIN result.declared = {<<MethodPath, <<"a">>>>}
  /\ DOMAIN result.mapped =
       {<<IntegrationPath, <<"a">>>>, <<IntegrationHeader, <<"h">>>>}

\* ------------------------------------------------------ claims, workflow

RemoteOps == {"get-resources", "create-resource", "put-method",
              "put-integration", "put-method-response",
              "put-integration-response", "get-integration"}
\* the calls issued so far
RemoteCalls == {k \in 1..Len(hist) : hist[k].op \in RemoteOps}
\* the reports of a missing authorizer id
ConfigurationErrors ==
  {k \in 1..Len(hist) : hist[k].op = "logger.error" /\ hist[k].out = "authorizer"}
\* the workflow resolved a leaf
Resolved ==
  /\ pc \in {"methods", "integrations", "cors", "verify", "finished"}
  /\ RetId # None
\* the calls of the configurator for an HTTP method
ConfiguratorCalls(op, http) ==
  {k \in 1..Len(hist) :
     hist[k].op = op /\ hist[k].http = http /\ hist[k].seg = After}
\* the put-method calls for OPTIONS on a node, whoever issued them
PreflightCreations(rid) ==
  {k \in 1..Len(hist) :
     hist[k].op = "put-method" /\ hist[k].http = "OPTIONS" /\ hist[k].arg = rid}
\* the call was refused for a reason other than "already exists"
Refused(k) == hist[k].out \notin {"ok", "conflict"}

\* C14 (as stated): in a workflow for an authorizer-backed mode without an
\* authorizer id, the configuration error comes before any remote call: no
\* listing, creation, method, integration or OPTIONS call has been issued
\* unless the error was reported before it.
C14_ConfigurationErrorFirst ==
  (variant # "none" /\ config.AUTH_TYPE # "NO_AUTH" /\ config.authorizer_id = None) =>
     \A k \in RemoteCalls : \E j \in ConfigurationErrors : j < k

\* C15 (as stated): with NO_AUTH, the configurator of a finished workflow
\* that resolved its leaf has issued exactly one put-method per requested
\* method, each with authorization NONE and without authorizer id, and
\* exactly one OPTIONS creation on the leaf.
C15_OpenMode ==
  (response.done /\ Resolved /\ config.AUTH_TYPE = "NO_AUTH") =>
     /\ \A j \in 1..Len(config.HTTP_METHODS) :
          /\ Cardinality(ConfiguratorCalls("put-method", config.HTTP_METHODS[j])) = 1
          /\ \A k \in ConfiguratorCalls("put-method", config.HTTP_METHODS[j]) :
               /\ hist[k].authorization = "NONE"
               /\ hist[k].authorizer = None
               /\ hist[k].arg = RetId
     /\ Cardinality(ConfiguratorCalls("put-method", "OPTIONS")) = 1
     /\ \A k \in ConfiguratorCalls("put-method", "OPTIONS") : hist[k].arg = RetId

\* C16 (as stated): when the put-method or put-integration call of the
\* method at position j is refused for a reason other than "already exists",
\* every method after j is still attempted and the finished workflow does
\* not report a total failure.
C16_MethodFailureIsolated ==
  (response.done /\ Resolved) =>
     \A j \in 1..Len(config.HTTP_METHODS) :
       (\E k \in ConfiguratorCalls("put-method", config.HTTP_METHODS[j])
                 \cup ConfiguratorCalls("put-integration", config.HTTP_METHODS[j]) :
          Refused(k)) =>
         /\ \A q \in (j + 1)..Len(config.HTTP_METHODS) :
              ConfiguratorCalls("put-method", config.HTTP_METHODS[q]) # {}
         /\ response.success

\* C17 (as stated): when the put-method and the put-integration call of a
\* method succeeded, a failure of its put-method-response or of its
\* put-integration-response call does not make the method count as failed.
C17_SoftFailure ==
  /\ variant = "cli" =>
       \A j \in 1..Len(results) :
         (/\ \E k \in ConfiguratorCalls("put-method", config.HTTP_METHODS[j]) :
                ~ Refused(k)
          /\ \E k \in ConfiguratorCalls("put-integration", config.HTTP_METHODS[j]) :
                ~ Refused(k))
           => results[j]
  /\ (variant = "lambda" /\ response.code = "INTEGRATION_FAILED") =>
       \E j \in 1..Len(config.HTTP_METHODS) :
         \E k \in ConfiguratorCalls("put-integration", config.HTTP_METHODS[j]) :
           Refused(k)

\* C18 (as stated): a finished workflow that resolved its leaf has created
\* the OPTIONS method on the leaf exactly once, whatever the methods and
\* their outcome; the leaf gets no second creation sequence.
C18_OnePreflightOnLeaf ==
  (response.done /\ Resolved) => Cardinality(PreflightCreations(RetId)) = 1

\* C19 (as stated): the configurator treats "already exists" as success for
\* every call: a method whose calls were all answered with success or
\* "already exists" is reported as configured, and so is the OPTIONS method.
C19_ConflictTolerant ==
  /\ variant = "cli" =>
       \A j \in 1..Len(results) :
         (/\ ConfiguratorCalls("put-method", config.HTTP_METHODS[j]) # {}
          /\ \A k \in 1..Len(hist) :
               (hist[k].http = config.HTTP_METHODS[j] /\ hist[k].seg = After
                /\ hist[k].op \in RemoteOps) => ~ Refused(k))
           => results[j]
  /\ (\A k \in 1..Len(hist) :
        (hist[k].http = "OPTIONS" /\ hist[k].seg = After /\ hist[k].op \in RemoteOps)
          => ~ Refused(k))
     => /\ \A k \in 1..Len(hist) :
             ~ (hist[k].op = "logger.warning" /\ hist[k].out = "options")
        /\ (variant = "lambda" /\ pc \in {"verify", "finished"} /\ Len(results) = 1)
             => results[1]

\* ------------------------------------------------------ claims, headers

\* the names of the headers of a dict, as the CLI reads a key: without the
\* integration prefix
HeaderNames(d) == {key[2] : key \in Keys(d)}

\* the value a dict gives the header named n
ValueOf(d, n) == Get(d, CHOOSE key \in Keys(d) : key[2] = n)

\* the entries of the request parameters that are no path mapping and
\* carry the name n
HeaderEntries(params, n) ==
  {k \in DOMAIN params : k[1] # IntegrationPath /\ k[2] = n}

IsPlaceholder(seg) ==
  /\ Len(seg) >= 3
  /\ seg[1] = "{"
  /\ seg[Len(seg)] = "}"
  /\ \A k \in 2..(Len(seg) - 1) : seg[k] \in WordChars

\* C24: a segment is tagged as a parameter exactly when its whole text is
\* {identifier}, and its parameter name is then the identifier; a segment
\* that only contains braces, or a placeholder inside literal text, is not
\* tagged.
C24_ParameterTagging ==
  (result.fn = "parse_uri_path" /\ ~result.raised) =>
    \A k \in 1..Len(result.parts) :
      /\ result.parts[k].is_param <=> IsPlaceholder(result.parts[k].segment)
      /\ result.parts[k].is_param =>
           result.parts[k].param_name =
             SubSeq(result.parts[k].segment, 2, Len(result.parts[k].segment) - 1)

\* ------------------------------------------------------ claims, clients

\* the invocations the Lambda handled for the client c
InvocationsOf(c) == {k \in DOMAIN invocations : invocations[k].client = c}

\* C22: concurrent runs share no mutable state: a client whose invoke has
\* returned a reply holds the reply to its own invocation, the one it would
\* have received running alone, whatever the other client did meanwhile.
C22_NoSharedState ==
  \A c \in ClientIds :
    (clients[c].pc = "done" /\ ~clients[c].returned.none) =>
      /\ clients[c].returned.to = c
      /\ \E k \in InvocationsOf(c) : clients[c].returned = invocations[k].reply

\* C30: a create_endpoint request built by LambdaClient.create_endpoint and
\* delivered by LambdaClient.invoke reaches validation with its operation
\* field and its sections intact, a well-formed one is dispatched to
\* endpoint creation and none is rejected for a missing operation; the
\* handler calls the gateway for no request that fails validation.
C30_ClientHandlerProtocol ==
  \A k \in DOMAIN invocations :
    /\ invocations[k].client \in ClientIds =>
         /\ invocations[k].parsed = clients[invocations[k].client].payload
         /\ invocations[k].error # "Missing 'operation' field"
         /\ validate_payload(clients[invocations[k].client].payload) = "" =>
              invocations[k].dispatched = "create_endpoint"
    /\ invocations[k].error # "" => ~invocations[k].gateway

\* ------------------------------------------------------ claims, retries

\* two entries of the history are the same call: the same operation with
\* the same HTTP method on the same target; two listings are the same call
\* when they look up the same segment
SameCall(k, j) ==
  /\ hist[k].op = hist[j].op
  /\ hist[k].http = hist[j].http
  /\ hist[k].arg = hist[j].arg
  /\ hist[k].op = "get-resources" => hist[k].seg = hist[j].seg

\* C23: within one run no creation is duplicated and nothing is retried: at
\* most one create-resource call is issued per path segment, and a remote
\* call that failed is not issued again by the reconciler or the
\* configurator.
C23_NoDuplicateNoRetry ==
  /\ \A k, j \in Creates : hist[k].seg = hist[j].seg => k = j
  /\ \A k, j \in RemoteCalls :
       (k < j /\ hist[k].out # "ok") => ~SameCall(k, j)

\* ------------------------------------------------------ claims, lookups

\* C25: a failed lookup is surfaced: when the listing behind the existence
\* check of a segment fails, the run neither prompts for nor creates that
\* segment, and it ends in failure.
C25_LookupFailureSurfaced ==
  \A k \in Checks :
    hist[k].out # "ok" =>
      /\ \A j \in Prompts \cup Creates : hist[j].seg # hist[k].seg
      /\ Returned => ~Succeeded

\* ------------------------------------------------------ claims, chaining

\* the create-resource call issued for the segment n of the path
CreateOf(n) == CHOOSE k \in Creates : hist[k].seg = n

\* the run started on a tree holding only the root, every prompt was
\* confirmed and every remote call succeeded
EmptyTreeAllConfirmed ==
  /\ resources0 = {RootNode}
  /\ \A k \in Prompts : Lower(hist[k].out) = "s"
  /\ \A k \in 1..Len(hist) :
       hist[k].op \in {"get-resources", "create-resource", "put-method",
                       "put-integration", "put-method-response",
                       "put-integration-response"} => hist[k].out = "ok"

\* the id of the node of the cumulative prefix before the segment n
ParentOf(n) ==
  IF n = 1 THEN Lookup(resources, <<"/">>) ELSE Lookup(resources, PrefixOf(n - 1))

\* C26 (first part): against a tree holding only the root, with every prompt
\* confirmed and every call succeeding, a path of n segments yields n
\* prompts and n create-resource calls from the root to the leaf, each
\* create has as parent the id returned for the segment before (the root
\* for the first), each new node gets its preflight, and the run returns the
\* id of the node created for the last segment.
C26_ChainOnEmptyTree ==
  (variant = "cli" /\ Returned /\ EmptyTreeAllConfirmed) =>
    LET n == Len(path_parts)
    IN /\ Cardinality(Prompts) = n
       /\ Cardinality(Creates) = n
       /\ \A k \in 1..n : \E c \in Creates : hist[c].seg = k
       /\ \A j, k \in Creates : j < k => hist[j].seg < hist[k].seg
       /\ \A k \in Prompts : \E c \in Creates :
            hist[c].seg = hist[k].seg /\ k < c
       /\ \A k \in 1..n :
            /\ hist[CreateOf(k)].arg =
                 IF k = 1 THEN RootNode.id ELSE hist[CreateOf(k - 1)].ret
            /\ HasOptions(hist[CreateOf(k)].ret)
       /\ n > 0 => ret = hist[CreateOf(n)].ret

\* C26 (second part): the parent id passed to any create-resource call is
\* the id of the node of the immediately preceding cumulative prefix.
C26_ParentIsPrecedingPrefix ==
  \A k \in Creates :
    /\ hist[k].arg # None
    /\ hist[k].arg = ParentOf(hist[k].seg)

\* C26: parent chaining, both parts
C26_ParentChaining == C26_ChainOnEmptyTree /\ C26_ParentIsPrecedingPrefix

\* ------------------------------------------------------ claims, leaf

\* the calls of the configurator: method, integration, OPTIONS and
\* verification calls issued after the reconciler
ConfiguratorIssued ==
  {k \in 1..Len(hist) :
     /\ hist[k].seg = After
     /\ hist[k].op \in {"put-method", "put-integration", "put-method-response",
                        "put-integration-response", "get-integration"}}

\* the reconciler has ended without a leaf: cancelled or failed
ReconcileFailed ==
  /\ variant # "none"
  /\ pc \in {"returned", "methods", "integrations", "cors", "verify", "finished"}
  /\ IF variant = "cli" THEN ret = None ELSE ~lret.success

\* C28: the configurator runs only on a resolved leaf: when the reconciler
\* ends cancelled or failed the workflow issues no method, integration,
\* OPTIONS or verification call and hands back a failure, and every call of
\* the configurator targets the resource id the reconciler returned.
C28_OnlyOnResolvedLeaf ==
  /\ ReconcileFailed =>
       /\ ConfiguratorIssued = {}
       /\ pc \in {"returned", "finished"}
       /\ pc = "finished" => (response.done /\ ~response.success)
  /\ \A k \in ConfiguratorIssued : RetId # None /\ hist[k].arg = RetId

\* a workflow that created a node, then lost its leaf, and has handed back
\* its failure
C28_Witness ==
  /\ ReconcileFailed
  /\ pc = "finished"
  /\ Made # {}
  /\ response.done

\* ------------------------------------------------------ claims, CORS step

\* the pipeline has run its CORS step, and the step failed or was skipped
\* because CORS is disabled
CorsFailedOrSkipped ==
  /\ variant = "lambda"
  /\ pc \in {"verify", "finished"}
  /\ results # <<>>
  /\ ~results[1] \/ ~config.cors_enabled

\* the verification calls of the pipeline
VerificationCalls ==
  {k \in 1..Len(hist) : hist[k].op = "get-integration" /\ hist[k].seg = After}

\* C29: in the Lambda pipeline the CORS step is not critical: after
\* resources, methods and integrations succeeded, a CORS step that failed
\* or was skipped is followed by the verification, no error response is
\* given for it (an error then comes from the verification), and a success
\* response carries the id of the leaf.
C29_CorsNotCritical ==
  CorsFailedOrSkipped =>
    /\ pc = "verify" => ~response.done
    /\ pc = "finished" =>
         /\ response.done
         /\ VerificationCalls # {}
         /\ ~response.success =>
              response.code \in {"VERIFICATION_FAILED", "ENDPOINT_CREATION_ERROR"}
         /\ response.success =>
              /\ lret.resource_id # None
              /\ lret.resource_id = LeafOf(resources)

\* the CORS step issued calls and failed, and the pipeline still answered
\* with success
C29_Witness ==
  /\ CorsFailedOrSkipped
  /\ ~results[1]
  /\ pc = "finished"
  /\ response.success

\* --------------------------------------------------- claims, racing runs

\* the entries of the log of run r for an operation
RaceIdx(r, op) == {k \in 1..Len(racers[r].log) : racers[r].log[k].op = op}

\* the path both runs reconcile, as the run r reads it
RaceLeafPath(r) ==
  IF racers[r].variant = "cli"
  THEN LET parts == parse_uri_path(uri_path)
       IN IF parts = <<>> THEN <<"/">> ELSE parts[Len(parts)].path
  ELSE LET segs == parse_segments(uri_path)
       IN IF segs = <<>> THEN <<"/">> ELSE CumulativePath(segs, Len(segs))

\* the run r returned the node of the leaf
ReachedLeaf(r) ==
  /\ racers[r].pc = "returned"
  /\ racers[r].ret # None
  /\ racers[r].ret = Lookup(resources, RaceLeafPath(r))

BothReturned == \A r \in RacerIds : racers[r].pc = "returned"

\* a creation of run r was rejected as "already exists" after the run's
\* own check found the segment missing
LostRace(r) ==
  \E k \in RaceIdx(r, "create-resource") :
    /\ racers[r].log[k].out = "conflict"
    /\ \E j \in RaceIdx(r, "get-resources") :
         /\ j < k
         /\ racers[r].log[j].seg = racers[r].log[k].seg
         /\ racers[r].log[j].out = "ok"
         /\ racers[r].log[j].ret = None

\* the remote tree holds no two nodes with the same path
NoTwoNodesWithSamePath ==
  \A x, y \in resources : x.path = y.path => x = y

\* a run whose creation was rejected as "already exists" made that call
\* its last one and returned the failure value
RejectedCreateEndsRun ==
  \A r \in RacerIds :
    \A k \in RaceIdx(r, "create-resource") :
      racers[r].log[k].out = "conflict" =>
        /\ k = Len(racers[r].log)
        /\ racers[r].pc = "returned"
        /\ racers[r].ret = None

\* every prompt of the run was confirmed and no call of it failed for a
\* reason other than "already exists"
Undisturbed(r) ==
  \A k \in 1..Len(racers[r].log) :
    IF racers[r].log[k].op = "input"
    THEN Lower(racers[r].log[k].out) = "s"
    ELSE racers[r].log[k].out \in {"ok", "conflict"}

====
